---- MODULE Spec2Model ----
(***************************************************************************)
(* Identity resolution and weekly aggregation of the fantasy-football      *)
(* data scripts:                                                           *)
(*   scripts/weekly_performance_tracker.py  (season store, totals)         *)
(*   scripts/collect_nfl_data.py            (dedup gate, name matching)    *)
(*   scripts/generate_draft_database.py     (draft database save)          *)
(*   scripts/refresh_player_database.py     (roster cleaning)              *)
(*   scripts/validate_data.py               (validation report)            *)
(*   scripts/collect_adp_data.py            (ADP history)                  *)
(* Fantasy points are floats in the source; the model uses integers, which *)
(* keeps every comparison and sum exact.                                   *)
(***************************************************************************)
EXTENDS Integers, Sequences, FiniteSets, TLC

VARIABLES
    trackerFile,   \* data/season_2025_performances.json   (tracker store)
    perfFile,      \* season_2025_performances.json        (collector store)
    runs,          \* number of script runs so far
    lastRun,       \* what the latest run was given and what it reported
    draftFile,     \* data/NFL_draft_database.json
    tempExists,    \* data/NFL_draft_database.json.tmp is on disk
    lastSave,      \* the latest save_draft_database call and its result
    fantasy_players,   \* the roster list main() passes from matcher to matcher
    adp_players,       \* the ADP collection, in dict order
    nfl_stats,         \* the rows of the NFL statistics frame
    adp_lookup,        \* index built by create_normalized_name_lookup
    sleeper_by_name,   \* index built by match_sleeper_to_nfl (display name)
    sleeper_by_parts,  \* index built by match_sleeper_to_nfl ("last, first")
    matchedRecords,    \* matched_records: the records match_sleeper_to_nfl produced
    matchRun,          \* how far the matching has got
    normCall,          \* the latest generate_name_variations call
    rosterCall,        \* the latest roster filtering call and what it emitted
    adpLoad,           \* load_adp_data: where its loops are and its adp_database
    insightRun,        \* the store generate_performance_insights reads, and its lists
    validator,         \* DataValidator: the data directory, validation_results, progress
    adpHistory         \* adp_historical_tracking_2025.json and the latest run on it

mergeVars == <<trackerFile, perfFile, runs, lastRun>>
draftVars == <<draftFile, tempExists, lastSave>>
matchVars == <<fantasy_players, adp_players, nfl_stats, adp_lookup,
               sleeper_by_name, sleeper_by_parts, matchedRecords, matchRun>>
auxVars == <<rosterCall, adpLoad, insightRun, validator, adpHistory>>
vars == <<mergeVars, draftVars, matchVars, normCall, auxVars>>

(***************************************************************************)
(* Bounds of the model.                                                    *)
(***************************************************************************)
MaxRuns == 3
MaxWeek == 2

Weeks == 1..MaxWeek
PlayerIds == {"p1", "p2"}

(***************************************************************************)
(* Python dicts keep insertion order: a dict is a sequence of <<key,       *)
(* value>> pairs.                                                          *)
(***************************************************************************)
DictHas(d, k) == \E i \in 1..Len(d) : d[i][1] = k

DictGet(d, k) == d[CHOOSE i \in 1..Len(d) : d[i][1] = k][2]

DictSetAppend(d, k, v) == Append(d, <<k, v>>)

\* d[k] = v : an existing key keeps its position, a new key goes last
DictSet(d, k, v) ==
    IF DictHas(d, k)
    THEN [i \in 1..Len(d) |-> IF d[i][1] = k THEN <<k, v>> ELSE d[i]]
    ELSE Append(d, <<k, v>>)

DictKeys(d) == {d[i][1] : i \in 1..Len(d)}

(***************************************************************************)
(* Weekly statistics rows (week_<w>_stats_2025.json).  A row is a dict     *)
(* (kind "row"), possibly without its player id or its name, or something  *)
(* that is not a dict (kind "non_dict").                                   *)
(***************************************************************************)
Quiet ==
    [fantasy_points |-> 0, fantasy_points_ppr |-> 0, passing_yards |-> 0,
     passing_tds |-> 0, interceptions |-> 0, rushing_yards |-> 0,
     rushing_tds |-> 0, receiving_yards |-> 0, receiving_tds |-> 0,
     receptions |-> 0, targets |-> 0]

Solid ==
    [fantasy_points |-> 8, fantasy_points_ppr |-> 12, passing_yards |-> 0,
     passing_tds |-> 0, interceptions |-> 0, rushing_yards |-> 20,
     rushing_tds |-> 0, receiving_yards |-> 60, receiving_tds |-> 0,
     receptions |-> 4, targets |-> 6]

Boom ==
    [fantasy_points |-> 22, fantasy_points_ppr |-> 25, passing_yards |-> 30,
     passing_tds |-> 1, interceptions |-> 0, rushing_yards |-> 70,
     rushing_tds |-> 1, receiving_yards |-> 40, receiving_tds |-> 0,
     receptions |-> 3, targets |-> 5]

StatProfiles == {Quiet, Solid, Boom}

StatRow(id, name, stats) ==
    [kind |-> "row", player_id |-> id, player_name |-> name, stats |-> stats]

NonDictRow == [kind |-> "non_dict", player_id |-> "", player_name |-> "", stats |-> Quiet]

\* the batches a week's statistics file is drawn from
WeekStatBatches ==
    {<< >>,
     <<StatRow("p1", "Josh Allen", Solid)>>,
     <<StatRow("p1", "Josh Allen", Boom)>>,
     <<StatRow("p1", "Josh Allen", Quiet)>>,
     <<StatRow("p1", "Josh Allen", Solid), StatRow("p2", "Kyle Pitts", Boom)>>,
     <<StatRow("p1", "Josh Allen", Solid), StatRow("p1", "Josh Allen", Boom)>>,
     <<StatRow("", "Kyle Pitts", Solid), StatRow("p1", "Josh Allen", Solid)>>,
     <<StatRow("p2", "", Solid), StatRow("p1", "Josh Allen", Boom)>>,
     <<NonDictRow, StatRow("p2", "Kyle Pitts", Solid)>>}

(***************************************************************************)
(* WeeklyPerformanceTracker                                                *)
(***************************************************************************)
NoMetrics == [weeks_played |-> 0]

InitialSeasonTotals ==
    [games_played |-> 0, total_fantasy_points |-> 0,
     total_fantasy_points_ppr |-> 0, total_passing_yards |-> 0,
     total_rushing_yards |-> 0, total_receiving_yards |-> 0,
     total_tds |-> 0, best_week |-> 0, worst_week |-> 999,
     consistency_score |-> 0]

NewPlayerShell(row) ==
    [player_name |-> row.player_name,
     weekly_performances |-> << >>,
     season_totals |-> InitialSeasonTotals,
     advanced_metrics |-> NoMetrics]

WeekPerformance(row, week) ==
    [week |-> week,
     fantasy_points |-> row.stats.fantasy_points,
     fantasy_points_ppr |-> row.stats.fantasy_points_ppr,
     passing_yards |-> row.stats.passing_yards,
     passing_tds |-> row.stats.passing_tds,
     interceptions |-> row.stats.interceptions,
     rushing_yards |-> row.stats.rushing_yards,
     rushing_tds |-> row.stats.rushing_tds,
     receiving_yards |-> row.stats.receiving_yards,
     receiving_tds |-> row.stats.receiving_tds,
     receptions |-> row.stats.receptions,
     targets |-> row.stats.targets,
     total_tds |-> row.stats.passing_tds + row.stats.rushing_tds
                      + row.stats.receiving_tds]

Max2(a, b) == IF a >= b THEN a ELSE b
Min2(a, b) == IF a <= b THEN a ELSE b

UpdateSeasonTotals(totals, perf) ==
    [totals EXCEPT
        !.games_played = @ + 1,
        !.total_fantasy_points = @ + perf.fantasy_points,
        !.total_fantasy_points_ppr = @ + perf.fantasy_points_ppr,
        !.total_passing_yards = @ + perf.passing_yards,
        !.total_rushing_yards = @ + perf.rushing_yards,
        !.total_receiving_yards = @ + perf.receiving_yards,
        !.total_tds = @ + perf.total_tds,
        !.best_week = Max2(@, perf.fantasy_points_ppr),
        !.worst_week = IF perf.fantasy_points_ppr > 0
                       THEN Min2(@, perf.fantasy_points_ppr) ELSE @]

(***************************************************************************)
(* calculate_advanced_metrics.  avg_ppr_points, standard_deviation and     *)
(* consistency_score are real-valued functions of the list of PPR points   *)
(* of the weeks played; the model keeps that list (ppr_points) in their    *)
(* place and computes the integer-valued metrics from it.                  *)
(***************************************************************************)
RECURSIVE SumSeq(_)
SumSeq(s) == IF s = << >> THEN 0 ELSE Head(s) + SumSeq(Tail(s))

RECURSIVE MaxSeq(_)
MaxSeq(s) == IF Len(s) = 1 THEN s[1] ELSE Max2(Head(s), MaxSeq(Tail(s)))

RECURSIVE MinSeq(_)
MinSeq(s) == IF Len(s) = 1 THEN s[1] ELSE Min2(Head(s), MinSeq(Tail(s)))

IsPlayed(points) == points > 0

\* the PPR points of the weeks played, in the dict's iteration order
PprPoints(weekly_perfs) ==
    SelectSeq([i \in 1..Len(weekly_perfs) |->
                   weekly_perfs[i][2].fantasy_points_ppr], IsPlayed)

\* recent_avg > early_avg * 1.2, recent_avg < early_avg * 0.8
TrendDirection(ppr_points) ==
    LET n == Len(ppr_points)
        recent == IF n >= 3 THEN SubSeq(ppr_points, n - 2, n) ELSE ppr_points
        early == IF n >= 3 THEN SubSeq(ppr_points, 1, 3) ELSE ppr_points
    IN IF 5 * SumSeq(recent) * Len(early) > 6 * SumSeq(early) * Len(recent)
       THEN "trending_up"
       ELSE IF 5 * SumSeq(recent) * Len(early) < 4 * SumSeq(early) * Len(recent)
            THEN "trending_down"
            ELSE "stable"

IsBoom(points) == points >= 20
IsBust(points) == points < 5

PlayerAdvancedMetrics(player_data) ==
    LET ppr_points == PprPoints(player_data.weekly_performances)
    IN IF Len(ppr_points) < 2
       THEN player_data
       ELSE [player_data EXCEPT !.advanced_metrics =
                [ppr_points |-> ppr_points,
                 boom_weeks |-> Len(SelectSeq(ppr_points, IsBoom)),
                 bust_weeks |-> Len(SelectSeq(ppr_points, IsBust)),
                 trend_direction |-> TrendDirection(ppr_points),
                 weeks_played |-> Len(ppr_points),
                 ceiling |-> MaxSeq(ppr_points),
                 floor |-> MinSeq(ppr_points)]]

CalculateAdvancedMetrics(performance_data) ==
    [p \in DOMAIN performance_data |-> PlayerAdvancedMetrics(performance_data[p])]

(***************************************************************************)
(* update_performance_tracking: the loop over the week's rows.             *)
(***************************************************************************)
TrackerRowSkipped(row) == row.player_id = "" \/ row.player_name = ""

TrackerProcessRow(existing_data, row, week) ==
    IF TrackerRowSkipped(row)
    THEN existing_data
    ELSE LET pid == row.player_id
             shell == IF pid \in DOMAIN existing_data
                      THEN existing_data[pid] ELSE NewPlayerShell(row)
             perf == WeekPerformance(row, week)
             updated ==
                 [shell EXCEPT
                     !.weekly_performances = DictSet(@, ToString(week), perf),
                     !.season_totals = UpdateSeasonTotals(@, perf)]
         IN [p \in DOMAIN existing_data \cup {pid} |->
                IF p = pid THEN updated ELSE existing_data[p]]

RECURSIVE TrackerProcessRows(_, _, _)
TrackerProcessRows(existing_data, rows, week) ==
    IF rows = << >>
    THEN existing_data
    ELSE TrackerProcessRows(TrackerProcessRow(existing_data, Head(rows), week),
                            Tail(rows), week)

\* the store update_performance_tracking holds in memory before it saves
TrackerMerge(existing_data, rows, week) ==
    CalculateAdvancedMetrics(TrackerProcessRows(existing_data, rows, week))

(***************************************************************************)
(* Files.  kind "missing": no file; "ok": a complete JSON document;        *)
(* "torn": the file was opened for writing (truncated) and the dump did    *)
(* not finish.                                                             *)
(***************************************************************************)
NoFile == [kind |-> "missing", data |-> << >>]
TornFile == [kind |-> "torn", data |-> << >>]
FileOf(data) == [kind |-> "ok", data |-> data]

\* load_existing_performance_data: readOk = FALSE is open() or json.load()
\* raising (an unreadable or damaged file); any exception gives {}
LoadExistingPerformanceData(file, readOk) ==
    IF file.kind = "ok" /\ readOk THEN file.data ELSE << >>

\* with open(performance_file, 'w') as f: json.dump(existing_data, f)
\* writeDone = FALSE: the run ends between the truncating open and the end
\* of the dump
WriteJson(data, writeDone) == IF writeDone THEN FileOf(data) ELSE TornFile

NoRun ==
    [op |-> "none", week |-> 0, rows |-> << >>, loaded |-> FALSE,
     returned |-> FALSE, saved |-> FALSE, new_records |-> 0, duplicates |-> 0]

HasNonDict(rows) == \E i \in 1..Len(rows) : rows[i].kind = "non_dict"

\* the tracker prints no count of skipped rows: duplicates stays 0
TrackerRun(week, rows, loaded, returned, saved) ==
    [op |-> "tracker", week |-> week, rows |-> rows, loaded |-> loaded,
     returned |-> returned, saved |-> saved, new_records |-> 0,
     duplicates |-> 0]

UpdatePerformanceTracking(week, rows, readOk, writeDone) ==
    /\ runs < MaxRuns
    /\ runs' = runs + 1
    /\ UNCHANGED perfFile
    /\ LET loaded == trackerFile.kind = "ok" /\ readOk
       IN IF week = 0
          THEN /\ lastRun' = TrackerRun(week, << >>, FALSE, TRUE, FALSE)
               /\ UNCHANGED trackerFile
          ELSE IF rows = << >> \/ HasNonDict(rows)
          THEN /\ lastRun' = TrackerRun(week, rows, loaded, FALSE, FALSE)
               /\ UNCHANGED trackerFile
          ELSE LET existing_data ==
                       LoadExistingPerformanceData(trackerFile, readOk)
               IN /\ trackerFile' =
                        WriteJson(TrackerMerge(existing_data, rows, week), writeDone)
                  /\ lastRun' = TrackerRun(week, rows, loaded, writeDone, writeDone)

(***************************************************************************)
(* save_performance_data (collect_nfl_data.py): the dedup gate.            *)
(* A record is a dict with sleeper_id, week and its statistics, or not a   *)
(* dict.  sleeper_id "" stands for an absent or empty id and week 0 for an *)
(* absent week: record.get("sleeper_id", "") and record.get("week", 0).    *)
(***************************************************************************)
PerfRecord(id, name, week, points) ==
    [kind |-> "dict", sleeper_id |-> id, player_name |-> name, week |-> week,
     fantasy_points |-> points]

NonDictRecord ==
    [kind |-> "non_dict", sleeper_id |-> "", player_name |-> "", week |-> 0,
     fantasy_points |-> 0]

\* the batches save_performance_data is given
MatchedBatches ==
    {<< >>,
     <<PerfRecord("7", "Josh Allen", 1, 10)>>,
     <<PerfRecord("7", "Josh Allen", 1, 20)>>,
     <<PerfRecord("7", "Josh Allen", 2, 10)>>,
     <<PerfRecord("8", "Kyle Pitts", 1, 10)>>,
     <<PerfRecord("7", "Josh Allen", 1, 10), PerfRecord("7", "Josh Allen", 1, 20)>>,
     <<PerfRecord("7", "Josh Allen", 2, 10), PerfRecord("8", "Kyle Pitts", 1, 10)>>,
     <<PerfRecord("", "Kyle Pitts", 1, 10), PerfRecord("", "Sam Darnold", 1, 10)>>,
     <<NonDictRecord, PerfRecord("8", "Kyle Pitts", 2, 10)>>}

DedupKeyIdOnly(record) == record.sleeper_id

\* key = f"{sleeper_id}_{week}"
DedupKey(record) == record.sleeper_id \o "_" \o ToString(record.week)

ExistingKeys(existing_records) ==
    {DedupKey(existing_records[i]) :
        i \in {j \in 1..Len(existing_records) : existing_records[j].kind = "dict"}}

\* the loop "Add only new records": acc = [keys, new_records, duplicates]
RECURSIVE AddOnlyNew(_, _)
AddOnlyNew(acc, records) ==
    IF records = << >>
    THEN acc
    ELSE LET record == Head(records)
             key == DedupKey(record)
         IN AddOnlyNew(
                IF record.kind # "dict"
                THEN acc
                ELSE IF key \notin acc.keys
                THEN [acc EXCEPT !.keys = @ \cup {key},
                                 !.new_records = Append(@, record)]
                ELSE [acc EXCEPT !.duplicates = @ + 1],
                Tail(records))

\* json.load of the existing file; decodeOk = FALSE is a JSONDecodeError
\* (a damaged file), which gives []
LoadExistingRecords(file, decodeOk) ==
    IF file.kind = "ok" /\ decodeOk THEN file.data.performances ELSE << >>

PerfOutput(all_records, new_records) ==
    [metadata |-> [total_records |-> Len(all_records),
                   new_records_added |-> Len(new_records)],
     performances |-> all_records]

SavePerformanceData(matched_records, decodeOk, writeDone) ==
    /\ runs < MaxRuns
    /\ runs' = runs + 1
    /\ UNCHANGED trackerFile
    /\ LET existing_records == LoadExistingRecords(perfFile, decodeOk)
           acc == AddOnlyNew([keys |-> ExistingKeys(existing_records),
                              new_records |-> << >>, duplicates |-> 0],
                             matched_records)
           all_records == existing_records \o acc.new_records
       IN /\ perfFile' = WriteJson(PerfOutput(all_records, acc.new_records),
                                   writeDone)
          /\ lastRun' = [op |-> "save_performance_data", week |-> 0,
                         rows |-> matched_records,
                         loaded |-> perfFile.kind = "ok" /\ decodeOk,
                         returned |-> writeDone, saved |-> writeDone,
                         new_records |-> Len(acc.new_records),
                         duplicates |-> acc.duplicates]

\* no script has run yet
IdleMerge ==
    /\ trackerFile = NoFile
    /\ perfFile = NoFile
    /\ runs = 0
    /\ lastRun = NoRun

NoDraftFile == [kind |-> "missing"]

NoSave == [called |-> FALSE, returned |-> FALSE]

\* no save_draft_database call yet
IdleDraft ==
    /\ draftFile = NoDraftFile
    /\ tempExists = FALSE
    /\ lastSave = NoSave

\* a read can only fail where there is a file to read
\* an empty dict used as an index: no key
EmptyIndex == [key \in {} |-> key]

NoMatchRun == [adp_passes |-> 0, adp_status |-> "not_run", nfl_status |-> "not_run"]

\* nothing loaded, no matcher has run
IdleMatch ==
    /\ fantasy_players = << >>
    /\ adp_players = << >>
    /\ nfl_stats = << >>
    /\ adp_lookup = EmptyIndex
    /\ sleeper_by_name = EmptyIndex
    /\ sleeper_by_parts = EmptyIndex
    /\ matchedRecords = << >>
    /\ matchRun = NoMatchRun

NoNormCall == [phase |-> "idle"]

\* generate_name_variations has not been called
IdleNorm == normCall = NoNormCall

\* no roster has been filtered yet
NoRosterCall == [op |-> "none", status |-> "not_run", raw |-> << >>,
                 emitted |-> << >>]

\* load_adp_data has not been called
NoAdpLoad == [phase |-> "idle"]

\* generate_performance_insights has nothing to read
NoInsightRun == [phase |-> "idle"]

IdleRoster == rosterCall = NoRosterCall
IdleAdpLoad == adpLoad = NoAdpLoad
IdleInsight == insightRun = NoInsightRun

\* no DataValidator has been constructed
NoValidator == [pc |-> "idle"]

IdleValidator == validator = NoValidator

\* update_historical_tracking has never run: no tracking file
NoAdpHistory ==
    [file |-> [kind |-> "missing", data |-> << >>], runs |-> 0,
     last |-> [returned |-> FALSE, current |-> [kind |-> "missing"]]]

IdleHistory == adpHistory = NoAdpHistory

IdleAux ==
    IdleRoster /\ IdleAdpLoad /\ IdleInsight /\ IdleValidator /\ IdleHistory

Init == IdleMerge /\ IdleDraft /\ IdleMatch /\ IdleNorm /\ IdleAux

MergeNext ==
    \/ \E week \in 0..MaxWeek, rows \in WeekStatBatches, readOk \in BOOLEAN,
          writeDone \in BOOLEAN :
        /\ readOk \/ trackerFile.kind = "ok"
        /\ UpdatePerformanceTracking(week, rows, readOk, writeDone)
        /\ UNCHANGED <<draftVars, matchVars, normCall, auxVars>>
    \/ \E matched_records \in MatchedBatches, decodeOk \in BOOLEAN,
          writeDone \in BOOLEAN :
        /\ decodeOk \/ perfFile.kind = "ok"
        /\ SavePerformanceData(matched_records, decodeOk, writeDone)
        /\ UNCHANGED <<draftVars, matchVars, normCall, auxVars>>

Spec == Init /\ [][MergeNext]_vars

(***************************************************************************)
(* Properties of the season stores.                                        *)
(***************************************************************************)
StoredWeeks(player_data) ==
    [i \in 1..Len(player_data.weekly_performances) |->
        player_data.weekly_performances[i][2]]

TotalsAndMetrics(file) ==
    [p \in DOMAIN file.data |->
        <<file.data[p].season_totals, file.data[p].advanced_metrics>>]

\* a tracker run that loaded the stored data, merged and saved
TrackerMerged(run) == run.op = "tracker" /\ run.loaded /\ run.saved

\* C1: a tracker run for the same week with the same rows, right after a
\* run that merged them, leaves every player's season_totals and
\* advanced_metrics as that first run left them.
C1_MergeIdempotent ==
    [][(/\ lastRun.op = "tracker" /\ lastRun.saved
        /\ TrackerMerged(lastRun')
        /\ runs' = runs + 1
        /\ lastRun'.week = lastRun.week
        /\ lastRun'.rows = lastRun.rows)
       => TotalsAndMetrics(trackerFile') = TotalsAndMetrics(trackerFile)]_vars

TrackerWeeksUnique(file) ==
    \A p \in DOMAIN file.data :
        \A i, j \in 1..Len(file.data[p].weekly_performances) :
            StoredWeeks(file.data[p])[i].week = StoredWeeks(file.data[p])[j].week
                => i = j

PerfWeeksUnique(file) ==
    \A i, j \in 1..Len(file.data.performances) :
        (/\ file.data.performances[i].sleeper_id = file.data.performances[j].sleeper_id
         /\ file.data.performances[i].week = file.data.performances[j].week)
            => i = j

\* C2: each persisted store holds at most one weekly record for every
\* (player, week) pair.
C2_NoDuplicateWeek ==
    /\ trackerFile.kind = "ok" => TrackerWeeksUnique(trackerFile)
    /\ perfFile.kind = "ok" => PerfWeeksUnique(perfFile)

\* a batch repeating a (player, week) went through the gate, and the tracker
\* store holds a week that was merged before
C2_Witness ==
    /\ lastRun.op = "save_performance_data"
    /\ lastRun.saved
    /\ lastRun.duplicates > 0
    /\ \E i, j \in 1..Len(lastRun.rows) :
          /\ i # j
          /\ lastRun.rows[i].sleeper_id = lastRun.rows[j].sleeper_id
          /\ lastRun.rows[i].week = lastRun.rows[j].week
    /\ trackerFile.kind = "ok"
    /\ \E p \in DOMAIN trackerFile.data :
          trackerFile.data[p].season_totals.games_played
              > Len(trackerFile.data[p].weekly_performances)

TotalsRecomputed(player_data) ==
    LET perfs == StoredWeeks(player_data)
        n == Len(perfs)
        totals == player_data.season_totals
    IN /\ totals.games_played = n
       /\ totals.total_fantasy_points
             = SumSeq([i \in 1..n |-> perfs[i].fantasy_points])
       /\ totals.total_fantasy_points_ppr
             = SumSeq([i \in 1..n |-> perfs[i].fantasy_points_ppr])
       /\ totals.total_passing_yards
             = SumSeq([i \in 1..n |-> perfs[i].passing_yards])
       /\ totals.total_rushing_yards
             = SumSeq([i \in 1..n |-> perfs[i].rushing_yards])
       /\ totals.total_receiving_yards
             = SumSeq([i \in 1..n |-> perfs[i].receiving_yards])
       /\ totals.total_tds = SumSeq([i \in 1..n |-> perfs[i].total_tds])

\* C3: every player's season_totals equal the values recomputed from the
\* weekly records stored for that player.
C3_TotalsFromStoredWeeks ==
    trackerFile.kind = "ok" =>
        \A p \in DOMAIN trackerFile.data : TotalsRecomputed(trackerFile.data[p])

\* the rows of a tracker batch that the loop merges
TrackerRowMerged(row) == row.kind = "row" /\ ~TrackerRowSkipped(row)

\* row i of a tracker run is for a player who has a record for the run's
\* week: stored before the run, or merged from an earlier row of the batch
TrackerDuplicateRows(file, run) ==
    {i \in 1..Len(run.rows) :
        /\ TrackerRowMerged(run.rows[i])
        /\ \/ /\ file.kind = "ok"
              /\ run.rows[i].player_id \in DOMAIN file.data
              /\ DictHas(file.data[run.rows[i].player_id].weekly_performances,
                         ToString(run.week))
           \/ \E j \in 1..(i - 1) :
                 /\ TrackerRowMerged(run.rows[j])
                 /\ run.rows[j].player_id = run.rows[i].player_id}

\* row i of a save_performance_data batch has the (player, week) of a stored
\* record or of an earlier row of the batch
PerfDuplicateRows(file, run) ==
    {i \in 1..Len(run.rows) :
        /\ run.rows[i].kind = "dict"
        /\ \/ /\ file.kind = "ok"
              /\ \E k \in 1..Len(file.data.performances) :
                    /\ file.data.performances[k].sleeper_id = run.rows[i].sleeper_id
                    /\ file.data.performances[k].week = run.rows[i].week
           \/ \E j \in 1..(i - 1) :
                 /\ run.rows[j].kind = "dict"
                 /\ run.rows[j].sleeper_id = run.rows[i].sleeper_id
                 /\ run.rows[j].week = run.rows[i].week}

\* the stored record and totals of every player who had the week stored
TrackerDuplicatesUntouched(before, after, run) ==
    \A i \in 1..Len(run.rows) :
        (/\ TrackerRowMerged(run.rows[i])
         /\ run.rows[i].player_id \in DOMAIN before.data
         /\ DictHas(before.data[run.rows[i].player_id].weekly_performances,
                    ToString(run.week)))
        => LET p == run.rows[i].player_id
           IN /\ p \in DOMAIN after.data
              /\ DictHas(after.data[p].weekly_performances, ToString(run.week))
              /\ DictGet(after.data[p].weekly_performances, ToString(run.week))
                    = DictGet(before.data[p].weekly_performances, ToString(run.week))
              /\ after.data[p].season_totals = before.data[p].season_totals

PerfStoredUntouched(before, after) ==
    /\ Len(after.data.performances) >= Len(before.data.performances)
    /\ \A k \in 1..Len(before.data.performances) :
          after.data.performances[k] = before.data.performances[k]

\* C4: a merge that loaded the store and saved leaves the stored weekly
\* record and the season_totals of a player who already had the week as
\* they were, and reports each such row as one skipped duplicate.
C4_DuplicateSkipped ==
    [][/\ (TrackerMerged(lastRun') /\ runs' = runs + 1)
            => /\ TrackerDuplicatesUntouched(trackerFile, trackerFile', lastRun')
               /\ lastRun'.duplicates
                     = Cardinality(TrackerDuplicateRows(trackerFile, lastRun'))
       /\ (/\ lastRun'.op = "save_performance_data" /\ lastRun'.loaded
           /\ lastRun'.saved /\ runs' = runs + 1)
            => /\ PerfStoredUntouched(perfFile, perfFile')
               /\ lastRun'.duplicates
                     = Cardinality(PerfDuplicateRows(perfFile, lastRun'))]_vars

\* the weeks a save_performance_data batch merges
BatchWeeks(rows) == {rows[i].week : i \in {j \in 1..Len(rows) : rows[j].kind = "dict"}}

TrackerOtherWeeksKept(before, after, week) ==
    before.kind = "ok" =>
        \A p \in DOMAIN before.data :
            \A i \in 1..Len(before.data[p].weekly_performances) :
                before.data[p].weekly_performances[i][2].week # week
                    => /\ after.kind = "ok"
                       /\ p \in DOMAIN after.data
                       /\ \E j \in 1..Len(after.data[p].weekly_performances) :
                             after.data[p].weekly_performances[j]
                                 = before.data[p].weekly_performances[i]

PerfOtherWeeksKept(before, after, weeks) ==
    before.kind = "ok" =>
        \A k \in 1..Len(before.data.performances) :
            before.data.performances[k].week \notin weeks
                => /\ after.kind = "ok"
                   /\ \E j \in 1..Len(after.data.performances) :
                         after.data.performances[j] = before.data.performances[k]

\* C5: a merge of week w that saves keeps every weekly record stored for
\* another week, whether or not the existing store could be loaded.
C5_OtherWeeksKept ==
    [][/\ (lastRun'.op = "tracker" /\ lastRun'.saved /\ runs' = runs + 1)
            => TrackerOtherWeeksKept(trackerFile, trackerFile', lastRun'.week)
       /\ (lastRun'.op = "save_performance_data" /\ lastRun'.saved
           /\ runs' = runs + 1)
            => PerfOtherWeeksKept(perfFile, perfFile',
                                  BatchWeeks(lastRun'.rows))]_vars

\* C6: a store file only ever changes from one complete document to
\* another: it is never left empty, truncated or partially written.
C6_AtomicStoreWrite ==
    [][/\ trackerFile' # trackerFile => trackerFile'.kind = "ok"
       /\ perfFile' # perfFile => perfFile'.kind = "ok"]_vars

(***************************************************************************)
(* save_draft_database (generate_draft_database.py).  A database is known  *)
(* by what the function looks at: whether json.dump can serialise it,      *)
(* which of the keys the validation asserts it has, whether 'players' is a *)
(* list, and whether 'insights' has the three keys the summary prints.     *)
(***************************************************************************)
Databases ==
    [content : {"old", "new"}, serializable : BOOLEAN, metadata : BOOLEAN,
     players : {"absent", "list", "dict"},
     insights : {"absent", "partial", "complete"}]

\* where the environment makes a call of the function raise
SaveFaults == {"none", "makedirs", "open", "dump", "replace", "getsize"}

\* the asserts on the re-loaded temporary file
DraftValidates(database) ==
    /\ database.metadata
    /\ database.players # "absent"
    /\ database.insights # "absent"
    /\ database.players = "list"

\* the summary printed after the replacement reads
\* database['insights']['value_picks'], ['bust_warnings'] and ['sleepers']
DraftSummaryPrints(database) == database.insights = "complete"

\* the except branch: os.remove(temp_file) if it exists, errors ignored
CleanUpTemp(exists, removeOk) == exists /\ ~removeOk

SaveResult(database, fault, removeOk, returned) ==
    [called |-> TRUE, returned |-> returned, database |-> database,
     fault |-> fault, removeOk |-> removeOk]

SaveDraftDatabase(database, fault, removeOk) ==
    /\ lastSave' = SaveResult(database, fault, removeOk,
                              /\ fault = "none"
                              /\ database.serializable
                              /\ DraftValidates(database)
                              /\ DraftSummaryPrints(database))
    /\ IF fault = "makedirs"
       THEN \* temp_file is not yet a local: nothing is cleaned up
            UNCHANGED <<draftFile, tempExists>>
       ELSE IF fault = "open"
       THEN /\ tempExists' = CleanUpTemp(tempExists, removeOk)
            /\ UNCHANGED draftFile
       ELSE IF fault = "dump" \/ ~database.serializable
                 \/ ~DraftValidates(database) \/ fault = "replace"
       THEN /\ tempExists' = CleanUpTemp(TRUE, removeOk)
            /\ UNCHANGED draftFile
       ELSE \* os.replace / os.rename done; what follows can still raise
            /\ draftFile' = [kind |-> "ok", database |-> database]
            /\ tempExists' = FALSE
    /\ UNCHANGED <<mergeVars, matchVars, normCall, auxVars>>

DraftNext ==
    \E database \in Databases, fault \in SaveFaults, removeOk \in BOOLEAN :
        SaveDraftDatabase(database, fault, removeOk)

DraftSpec == Init /\ [][DraftNext]_vars

\* C7: a call of save_draft_database that returns False leaves the database
\* file as it was and leaves no temporary file on disk.
C7_FailedSaveKeepsOldFile ==
    [][(lastSave'.called /\ ~lastSave'.returned)
          => (draftFile' = draftFile /\ ~tempExists')]_vars

(***************************************************************************)
(* Python strings.  Names hold letters, periods, apostrophes, commas and   *)
(* blanks; the blank is the only whitespace character.                     *)
(***************************************************************************)
\* the letters str.lower() changes, and what it makes of them
LowerOf ==
    [A |-> "a", B |-> "b", C |-> "c", D |-> "d", E |-> "e", F |-> "f",
     G |-> "g", H |-> "h", I |-> "i", J |-> "j", K |-> "k", L |-> "l",
     M |-> "m", N |-> "n", O |-> "o", P |-> "p", Q |-> "q", R |-> "r",
     S |-> "s", T |-> "t", U |-> "u", V |-> "v", W |-> "w", X |-> "x",
     Y |-> "y", Z |-> "z"]

\* the letters str.upper() changes, and what it makes of them
UpperOf ==
    [a |-> "A", b |-> "B", c |-> "C", d |-> "D", e |-> "E", f |-> "F",
     g |-> "G", h |-> "H", i |-> "I", j |-> "J", k |-> "K", l |-> "L",
     m |-> "M", n |-> "N", o |-> "O", p |-> "P", q |-> "Q", r |-> "R",
     s |-> "S", t |-> "T", u |-> "U", v |-> "V", w |-> "W", x |-> "X",
     y |-> "Y", z |-> "Z"]

CharAt(str, i) == SubSeq(str, i, i)

LowerChar(c) == IF c \in DOMAIN LowerOf THEN LowerOf[c] ELSE c

UpperChar(c) == IF c \in DOMAIN UpperOf THEN UpperOf[c] ELSE c

\* str.lower()
RECURSIVE Lower(_)
Lower(str) == IF str = "" THEN "" ELSE LowerChar(Head(str)) \o Lower(Tail(str))

\* str.upper()
RECURSIVE Upper(_)
Upper(str) == IF str = "" THEN "" ELSE UpperChar(Head(str)) \o Upper(Tail(str))

RECURSIVE LStrip(_)
LStrip(str) == IF str # "" /\ Head(str) = " " THEN LStrip(Tail(str)) ELSE str

RECURSIVE RStrip(_)
RStrip(str) ==
    IF str # "" /\ CharAt(str, Len(str)) = " "
    THEN RStrip(SubSeq(str, 1, Len(str) - 1))
    ELSE str

\* str.strip()
Strip(str) == RStrip(LStrip(str))

StartsWith(str, prefix) ==
    Len(prefix) <= Len(str) /\ SubSeq(str, 1, Len(prefix)) = prefix

EndsWith(str, suffix) ==
    Len(suffix) <= Len(str)
        /\ SubSeq(str, Len(str) - Len(suffix) + 1, Len(str)) = suffix

\* sub in str
Contains(str, sub) ==
    \E i \in 1..(Len(str) - Len(sub) + 1) :
        SubSeq(str, i, i + Len(sub) - 1) = sub

\* str.replace(old, new), old not empty: left to right, without overlap
RECURSIVE Replace(_, _, _)
Replace(str, old, new) ==
    IF Len(str) < Len(old)
    THEN str
    ELSE IF StartsWith(str, old)
    THEN new \o Replace(SubSeq(str, Len(old) + 1, Len(str)), old, new)
    ELSE Head(str) \o Replace(Tail(str), old, new)

\* the first word of a string that starts with a non-blank
RECURSIVE FirstWord(_)
FirstWord(str) ==
    IF str = "" \/ Head(str) = " "
    THEN ""
    ELSE Head(str) \o FirstWord(Tail(str))

\* str.split()
RECURSIVE Split(_)
Split(str) ==
    LET rest == LStrip(str)
        word == FirstWord(rest)
    IN IF rest = ""
       THEN << >>
       ELSE <<word>> \o Split(SubSeq(rest, Len(word) + 1, Len(rest)))

\* sep.join(words)
RECURSIVE Join(_, _)
Join(words, sep) ==
    IF words = << >>
    THEN ""
    ELSE IF Len(words) = 1
    THEN words[1]
    ELSE words[1] \o sep \o Join(Tail(words), sep)

(***************************************************************************)
(* generate_name_variations                                                *)
(***************************************************************************)
NameSuffixes == <<" jr", " jr.", " sr", " sr.", " ii", " iii", " iv">>

\* for suffix in [...]: no_suffix = no_suffix.replace(suffix, "")
\*                                           .replace(suffix.upper(), "")
RECURSIVE RemoveSuffixes(_, _)
RemoveSuffixes(no_suffix, suffixes) ==
    IF suffixes = << >>
    THEN no_suffix
    ELSE RemoveSuffixes(
             Replace(Replace(no_suffix, Head(suffixes), ""),
                     Upper(Head(suffixes)), ""),
             Tail(suffixes))

FirstNameMap ==
    <<<<"C.", {"Christian", "Chris", "Calvin", "Cameron", "Cam"}>>,
      <<"A.", {"Adrian", "Antonio", "Anthony", "Aaron", "Andre"}>>,
      <<"D.", {"David", "Daniel", "Dak", "DK", "Davante"}>>,
      <<"J.", {"James", "Josh", "Justin", "Jaylen", "Jalen"}>>,
      <<"T.", {"Tyler", "Tua", "Travis", "Tyreek"}>>,
      <<"K.", {"Kyle", "Kyler", "Kenneth"}>>,
      <<"M.", {"Mike", "Michael", "Mark", "Matt", "Matthew"}>>,
      <<"R.", {"Robert", "Ryan", "Russell", "Romeo"}>>,
      <<"S.", {"Sam", "Samuel", "Saquon", "Stefan"}>>>>

NicknameMap ==
    <<<<"dk", "D.K.">>, <<"aj", "A.J.">>, <<"cj", "C.J.">>, <<"tj", "T.J.">>,
      <<"jj", "J.J.">>, <<"rj", "R.J.">>, <<"bj", "B.J.">>, <<"pj", "P.J.">>,
      <<"ceedee", "CeeDee">>, <<"cmc", "Christian McCaffrey">>,
      <<"cmac", "Christian McCaffrey">>>>

\* "Christian McCaffrey" -> "c. mccaffrey", "c mccaffrey";
\* "C. McCaffrey" -> "christian mccaffrey", ...
InitialVariations(name) ==
    LET name_parts == Split(name)
        first == name_parts[1]
        last == Join(Tail(name_parts), " ")
    IN IF Len(name_parts) < 2
       THEN {}
       ELSE (IF Len(first) > 1
             THEN {Lower(CharAt(first, 1) \o ". " \o last),
                   Lower(CharAt(first, 1) \o " " \o last)}
             ELSE {})
            \cup
            (IF Len(first) = 2 /\ EndsWith(first, ".") /\ DictHas(FirstNameMap, first)
             THEN {Lower(full_first \o " " \o last) :
                       full_first \in DictGet(FirstNameMap, first)}
             ELSE {})

NicknameVariations(name) ==
    LET name_lower == Lower(name)
    IN {Replace(name_lower, NicknameMap[i][1], Lower(NicknameMap[i][2])) :
            i \in {j \in 1..Len(NicknameMap) :
                       Contains(name_lower, NicknameMap[j][1])}}
       \cup
       {Replace(name_lower, Lower(NicknameMap[i][2]), NicknameMap[i][1]) :
            i \in {j \in 1..Len(NicknameMap) :
                       Contains(name_lower, Lower(NicknameMap[j][2]))}}

\* the function were it to return the initial and nickname forms only
GenerateDerivedVariations(raw_name) ==
    IF raw_name = ""
    THEN {}
    ELSE LET name == Strip(raw_name)
             variations == InitialVariations(name) \cup NicknameVariations(name)
         IN {Join(Split(var), " ") : var \in variations} \ {""}

\* the function without the "if clean_var" test of its last loop
GenerateUnfilteredVariations(raw_name) ==
    IF raw_name = ""
    THEN {}
    ELSE LET name == Strip(raw_name)
             variations ==
                 {Lower(name),
                  Lower(Replace(name, ".", "")),
                  Lower(Replace(name, "'", "")),
                  Strip(Lower(RemoveSuffixes(name, NameSuffixes)))}
                 \cup InitialVariations(name)
                 \cup NicknameVariations(name)
         IN {Join(Split(var), " ") : var \in variations}

\* the set the function builds; it returns list(clean_variations), whose
\* order is the iteration order of a set of str
GenerateNameVariations(raw_name) ==
    IF raw_name = ""
    THEN {}
    ELSE LET name == Strip(raw_name)
             variations ==
                 {Lower(name),
                  Lower(Replace(name, ".", "")),
                  Lower(Replace(name, "'", "")),
                  Strip(Lower(RemoveSuffixes(name, NameSuffixes)))}
                 \cup InitialVariations(name)
                 \cup NicknameVariations(name)
         IN {Join(Split(var), " ") : var \in variations} \ {""}

(***************************************************************************)
(* Roster players, ADP players and NFL statistics rows.                    *)
(***************************************************************************)
MaxRoster == 2
MaxAdp == 2
MaxNflRows == 1
MaxPasses == 2

NoAdpKey == [kind |-> "absent"]     \* the player dict has no "adp_data" key
AdpNone == [kind |-> "none"]        \* player["adp_data"] = None

\* an entry of the roster (load_sleeper_players)
RosterPlayer(id, player_name, first_name, last_name) ==
    [sleeper_id |-> id, player_name |-> player_name,
     first_name |-> first_name, last_name |-> last_name,
     position |-> "QB", team |-> "BUF", adp_data |-> NoAdpKey]

RosterCatalogue ==
    {RosterPlayer("s1", "Josh Allen", "Josh", "Allen"),
     RosterPlayer("s2", "Josh Allen", "Josh", "Allen"),
     RosterPlayer("s3", "J. Allen", "", ""),
     RosterPlayer("s4", "", "Josh", "Allen"),
     RosterPlayer("s5", " ", "", ""),
     RosterPlayer("s6", "Christian McCaffrey", "Christian", "McCaffrey")}

\* an entry of adp_database["players"] (load_adp_data)
AdpPlayer(name, average_adp) ==
    [name |-> name, position |-> "QB", average_adp |-> average_adp]

AdpCatalogue ==
    {AdpPlayer("Josh Allen", 12), AdpPlayer("James Allen", 150),
     AdpPlayer(" ", 999)}

\* a row of the statistics frame (collect_nfl_stats)
NflRow(player_name, player_display_name, week) ==
    [player_name |-> player_name,
     player_display_name |-> player_display_name, week |-> week]

NflCatalogue ==
    {NflRow("J.Allen", "Josh Allen", 1), NflRow("Josh Allen", "Josh Allen", 1),
     NflRow("Allen, Josh", "Allen, Josh", 1), NflRow("", "Josh Allen", 1),
     NflRow("T.Kelce", "", 1)}

\* the sequences without repetition of at most n members of a set
DistinctSeqs(S, n) ==
    UNION {{seq \in [1..len -> S] :
                \A i, j \in 1..len : i # j => seq[i] # seq[j]} : len \in 0..n}

(***************************************************************************)
(* create_normalized_name_lookup                                           *)
(***************************************************************************)
\* one iteration of the loop over adp_players.items(): a variation that is
\* already a key keeps its player
AddAdpPlayer(lookup, adp_player) ==
    LET original_name == Strip(adp_player.name)
        name_variations == GenerateNameVariations(original_name)
    IN IF original_name = ""
       THEN lookup
       ELSE [variation \in DOMAIN lookup \cup name_variations |->
                 IF variation \in DOMAIN lookup
                 THEN lookup[variation]
                 ELSE adp_player]

RECURSIVE AddAdpPlayers(_, _)
AddAdpPlayers(lookup, players) ==
    IF players = << >>
    THEN lookup
    ELSE AddAdpPlayers(AddAdpPlayer(lookup, Head(players)), Tail(players))

CreateNormalizedNameLookup(players) == AddAdpPlayers(EmptyIndex, players)

(***************************************************************************)
(* enhanced_match_players_to_adp                                           *)
(***************************************************************************)
\* generate_name_variations(sleeper_name)
PrimaryVariations(player) == GenerateNameVariations(Strip(player.player_name))

\* generate_name_variations(f"{first_name} {last_name}"), if both are there
FullNameVariations(player) ==
    LET first_name == Strip(player.first_name)
        last_name == Strip(player.last_name)
    IN IF first_name # "" /\ last_name # ""
       THEN GenerateNameVariations(first_name \o " " \o last_name)
       ELSE {}

\* the loop were it to try the primary variations only
FirstHitsPrimaryOnly(player, lookup) ==
    PrimaryVariations(player) \cap DOMAIN lookup

\* sleeper_variations is list(set) of the primary variations followed by
\* list(set) of the full-name variations; the loop stops at the first member
\* that is a key.  The order of a list(set of str) follows the string hashes
\* of the process, so the first hit is any hit among the primary variations,
\* or, without one, any hit among the full-name variations.
FirstHits(player, lookup) ==
    LET primary == PrimaryVariations(player) \cap DOMAIN lookup
    IN IF primary # {}
       THEN primary
       ELSE FullNameVariations(player) \cap DOMAIN lookup

SameNames(p, q) ==
    /\ p.player_name = q.player_name
    /\ p.first_name = q.first_name
    /\ p.last_name = q.last_name

\* the variation the break loop of one player stops at ("" when none hits)
FirstHitOrNone(player, lookup) ==
    LET hits == FirstHits(player, lookup)
    IN IF hits = {} THEN {""} ELSE hits

RECURSIVE BreakLoops(_, _)
BreakLoops(players, lookup) ==
    IF players = << >>
    THEN {<< >>}
    ELSE LET rest == BreakLoops(Tail(players), lookup)
         IN {<<variation>> \o others :
                 variation \in FirstHitOrNone(Head(players), lookup),
                 others \in rest}

\* the outcomes of the break loops of one pass: per player the variation that
\* hit; within one process equal names iterate alike
FirstHitChoices(players, lookup) ==
    {matched_variation \in BreakLoops(players, lookup) :
        \A i, j \in 1..Len(players) :
            SameNames(players[i], players[j])
                => matched_variation[i] = matched_variation[j]}

\* the assignment of adp_data were the hitting variation not recorded
WithAdpDataUnnamed(player, lookup, matched_variation) ==
    IF matched_variation # ""
    THEN [player EXCEPT !.adp_data =
              [kind |-> "data",
               average_adp |-> lookup[matched_variation].average_adp,
               matched_via |-> ""]]
    ELSE [player EXCEPT !.adp_data = AdpNone]

\* player["adp_data"] = {...} or None
WithAdpData(player, lookup, matched_variation) ==
    IF matched_variation # ""
    THEN [player EXCEPT !.adp_data =
              [kind |-> "data",
               average_adp |-> lookup[matched_variation].average_adp,
               matched_via |-> matched_variation]]
    ELSE [player EXCEPT !.adp_data = AdpNone]

\* player["player_name"] finds its key
HasName(player) == "player_name" \in DOMAIN player

\* the position at which player["player_name"] raises KeyError, or one past
\* the end of the list when every player has the key
FirstNameless(players) ==
    IF \E i \in 1..Len(players) : ~HasName(players[i])
    THEN CHOOSE i \in 1..Len(players) :
             /\ ~HasName(players[i])
             /\ \A j \in 1..(i - 1) : HasName(players[j])
    ELSE Len(players) + 1

EnhancedMatchPlayersToAdp ==
    /\ matchRun.adp_status # "raised"
    /\ matchRun.adp_passes < MaxPasses
    /\ IF adp_players = << >>
       THEN \* "No ADP data available for matching": the list comes back as is
            /\ matchRun' = [matchRun EXCEPT !.adp_passes = @ + 1,
                                            !.adp_status = "returned"]
            /\ UNCHANGED <<fantasy_players, adp_lookup>>
       ELSE LET lookup == CreateNormalizedNameLookup(adp_players)
                stop == FirstNameless(fantasy_players)
                reached == SubSeq(fantasy_players, 1, stop - 1)
            IN /\ adp_lookup' = lookup
               \* the players before the KeyError have their adp_data set
               /\ \E matched_variation \in FirstHitChoices(reached, lookup) :
                      fantasy_players' =
                          [i \in 1..Len(fantasy_players) |->
                              IF i < stop
                              THEN WithAdpData(fantasy_players[i], lookup,
                                               matched_variation[i])
                              ELSE fantasy_players[i]]
               \* matched_count/len(fantasy_players) in the results print
               /\ matchRun' = [matchRun EXCEPT
                                  !.adp_passes = @ + 1,
                                  !.adp_status =
                                      IF stop <= Len(fantasy_players)
                                             \/ fantasy_players = << >>
                                      THEN "raised"
                                      ELSE "returned"]
    /\ UNCHANGED <<adp_players, nfl_stats, sleeper_by_name, sleeper_by_parts,
                   matchedRecords>>
    /\ UNCHANGED <<mergeVars, draftVars, normCall, auxVars>>

(***************************************************************************)
(* match_sleeper_to_nfl                                                    *)
(***************************************************************************)
\* index[key] = value
IndexPut(index, key, value) ==
    [k \in DOMAIN index \cup {key} |-> IF k = key THEN value ELSE index[k]]

NameKey(player) == Strip(Lower(player.player_name))

LastFirst(player) == Lower(player.last_name \o ", " \o player.first_name)

RECURSIVE SleeperByName(_, _)
SleeperByName(index, players) ==
    IF players = << >>
    THEN index
    ELSE SleeperByName(IndexPut(index, NameKey(Head(players)), Head(players)),
                       Tail(players))

RECURSIVE SleeperByParts(_, _)
SleeperByParts(index, players) ==
    IF players = << >>
    THEN index
    ELSE SleeperByParts(
             IF Head(players).first_name # "" /\ Head(players).last_name # ""
             THEN IndexPut(index, LastFirst(Head(players)), Head(players))
             ELSE index,
             Tail(players))

PerformanceRecord(matched_player, nfl_row, match_method) ==
    [sleeper_id |-> matched_player.sleeper_id,
     player_name |-> matched_player.player_name,
     nfl_name |-> nfl_row.player_name,
     week |-> nfl_row.week,
     match_method |-> match_method]

\* the records one statistics row contributes: none or one
MatchNflRow(nfl_row, by_name, by_parts) ==
    LET nfl_name == nfl_row.player_name
        nfl_display == nfl_row.player_display_name
    IN IF nfl_name = ""
       THEN << >>
       ELSE IF Lower(nfl_name) \in DOMAIN by_name
       THEN <<PerformanceRecord(by_name[Lower(nfl_name)], nfl_row, "exact_name")>>
       ELSE IF Lower(nfl_display) \in DOMAIN by_name
       THEN <<PerformanceRecord(by_name[Lower(nfl_display)], nfl_row,
                                "display_name")>>
       ELSE IF Lower(nfl_name) \in DOMAIN by_parts
       THEN <<PerformanceRecord(by_parts[Lower(nfl_name)], nfl_row, "last_first")>>
       ELSE << >>

RECURSIVE MatchNflRows(_, _, _)
MatchNflRows(rows, by_name, by_parts) ==
    IF rows = << >>
    THEN << >>
    ELSE MatchNflRow(Head(rows), by_name, by_parts)
             \o MatchNflRows(Tail(rows), by_name, by_parts)

\* main() calls it with the list match_players_to_adp returned
MatchSleeperToNfl ==
    /\ matchRun.adp_status = "returned"
    /\ matchRun.nfl_status = "not_run"
    /\ IF nfl_stats = << >>
       THEN \* "No NFL stats to match": return [], [], []
            /\ matchedRecords' = << >>
            /\ matchRun' = [matchRun EXCEPT !.nfl_status = "returned"]
            /\ UNCHANGED <<sleeper_by_name, sleeper_by_parts>>
       ELSE IF FirstNameless(fantasy_players) <= Len(fantasy_players)
       THEN \* KeyError: 'player_name' while the indexes are built
            /\ matchRun' = [matchRun EXCEPT !.nfl_status = "raised"]
            /\ UNCHANGED <<sleeper_by_name, sleeper_by_parts, matchedRecords>>
       ELSE LET by_name == SleeperByName(EmptyIndex, fantasy_players)
                by_parts == SleeperByParts(EmptyIndex, fantasy_players)
            IN /\ sleeper_by_name' = by_name
               /\ sleeper_by_parts' = by_parts
               /\ matchedRecords' = MatchNflRows(nfl_stats, by_name, by_parts)
               /\ matchRun' = [matchRun EXCEPT !.nfl_status = "returned"]
    /\ UNCHANGED <<fantasy_players, adp_players, nfl_stats, adp_lookup>>
    /\ UNCHANGED <<mergeVars, draftVars, normCall, auxVars>>

\* the roster, the ADP collection and the statistics frame are loaded
MatchInit ==
    /\ IdleMerge
    /\ IdleAux
    /\ IdleDraft
    /\ fantasy_players \in DistinctSeqs(RosterCatalogue, MaxRoster)
    /\ adp_players \in DistinctSeqs(AdpCatalogue, MaxAdp)
    /\ nfl_stats \in DistinctSeqs(NflCatalogue, MaxNflRows)
    /\ adp_lookup = EmptyIndex
    /\ sleeper_by_name = EmptyIndex
    /\ sleeper_by_parts = EmptyIndex
    /\ matchedRecords = << >>
    /\ matchRun = NoMatchRun
    /\ IdleNorm

MatchNext ==
    \/ EnhancedMatchPlayersToAdp
    \/ MatchSleeperToNfl

MatchSpec == MatchInit /\ [][MatchNext]_vars

(***************************************************************************)
(* Identity resolution: the claims.                                        *)
(***************************************************************************)
\* a step that resolves the roster once more against an unchanged lookup
RepeatedPass ==
    /\ matchRun.adp_status = "returned"
    /\ matchRun'.adp_passes = matchRun.adp_passes + 1
    /\ matchRun'.adp_status = "returned"
    /\ adp_lookup' = adp_lookup

\* C8: resolving the same roster player against the same ADP lookup once more
\* gives the same result, the same ADP record and the same matched_via
\* variant, whatever order generate_name_variations returned its variants in.
C8_ResolverDeterministic ==
    [][RepeatedPass =>
          \A i \in 1..Len(fantasy_players) :
              fantasy_players'[i].adp_data = fantasy_players[i].adp_data]_vars

\* the position of the earliest ADP player whose name generates the key
EarliestAdpWriter(key) ==
    CHOOSE i \in 1..Len(adp_players) :
        /\ key \in GenerateNameVariations(Strip(adp_players[i].name))
        /\ \A j \in 1..(i - 1) :
               key \notin GenerateNameVariations(Strip(adp_players[j].name))

AdpLookupFirstWriter ==
    \A key \in DOMAIN adp_lookup :
        adp_lookup[key] = adp_players[EarliestAdpWriter(key)]

\* the position of the earliest roster player with the name key
EarliestNameWriter(key) ==
    CHOOSE i \in 1..Len(fantasy_players) :
        /\ NameKey(fantasy_players[i]) = key
        /\ \A j \in 1..(i - 1) : NameKey(fantasy_players[j]) # key

HasParts(player) == player.first_name # "" /\ player.last_name # ""

\* the position of the earliest roster player with the "last, first" key
EarliestPartsWriter(key) ==
    CHOOSE i \in 1..Len(fantasy_players) :
        /\ HasParts(fantasy_players[i]) /\ LastFirst(fantasy_players[i]) = key
        /\ \A j \in 1..(i - 1) :
               ~(HasParts(fantasy_players[j])
                     /\ LastFirst(fantasy_players[j]) = key)

SleeperIndexesFirstWriter ==
    /\ \A key \in DOMAIN sleeper_by_name :
           sleeper_by_name[key].sleeper_id
               = fantasy_players[EarliestNameWriter(key)].sleeper_id
    /\ \A key \in DOMAIN sleeper_by_parts :
           sleeper_by_parts[key].sleeper_id
               = fantasy_players[EarliestPartsWriter(key)].sleeper_id

\* C9: in every identity index the first writer wins: once it is built, each
\* key of the ADP lookup, of sleeper_by_name and of sleeper_by_parts maps to
\* the earliest input record that generated the key.
C9_FirstWriterWins == AdpLookupFirstWriter /\ SleeperIndexesFirstWriter

BlankName(name) == Strip(name) = ""

NoBlankNameIndexed ==
    /\ \A key \in DOMAIN adp_lookup : ~BlankName(adp_lookup[key].name)
    /\ \A key \in DOMAIN sleeper_by_name :
           ~BlankName(sleeper_by_name[key].player_name)
    /\ \A key \in DOMAIN sleeper_by_parts :
           ~BlankName(sleeper_by_parts[key].player_name)

BlankNameUnmatched ==
    /\ \A i \in 1..Len(fantasy_players) :
           BlankName(fantasy_players[i].player_name)
               => fantasy_players[i].adp_data.kind # "data"
    /\ \A i \in 1..Len(matchedRecords) :
           ~BlankName(matchedRecords[i].player_name)

\* C10: a record whose display name is empty or only blanks is in no identity
\* index, and as a candidate it resolves as unmatched whatever its first_name
\* and last_name hold.
C10_BlankNameNeverMatches == NoBlankNameIndexed /\ BlankNameUnmatched

(***************************************************************************)
(* Calls of generate_name_variations on their own.  The callers pass       *)
(* str(...) of a name field, or None where the field is null.              *)
(***************************************************************************)
StrName(value) == [kind |-> "str", value |-> value]
NoneName == [kind |-> "none"]

NameCatalogue ==
    {"", " ", "   ", "Josh Allen", " josh  allen ", "J. Allen", "Allen",
     "Christian McCaffrey", "C. McCaffrey", "CMC", "D.K. Metcalf Jr.",
     "DK Metcalf", "D.K. Metcalf", "Ja'Marr Chase", "AJ Brown",
     "A.J. Brown III", "Kenneth Walker III", "Kenneth Walker",
     "Odell Beckham jr.", "Odell Beckham JR", "T.J. Hockenson",
     "Marvin Harrison Jr", "Patrick Mahomes II", "CeeDee Lamb",
     "Travis Etienne Jr.", "D'Andre Swift"}

NameInputs == {StrName(value) : value \in NameCatalogue} \cup {NoneName}

\* generate_name_variations(name) for a str or None
NameVariationsOf(name) ==
    IF name.kind = "none"
    THEN {}
    ELSE GenerateNameVariations(name.value)

\* a caller is about to pass name
NormInit ==
    /\ IdleMerge
    /\ IdleAux
    /\ IdleDraft
    /\ IdleMatch
    /\ \E name \in NameInputs : normCall = [phase |-> "called", name |-> name]

\* the call returns its list of variations
ReturnVariations ==
    /\ normCall.phase = "called"
    /\ normCall' = [phase |-> "returned", name |-> normCall.name,
                    variations |-> NameVariationsOf(normCall.name)]
    /\ UNCHANGED <<mergeVars, draftVars, matchVars, auxVars>>

\* a variation that was returned is normalized in its turn
NormalizeVariation ==
    /\ normCall.phase = "returned"
    /\ \E variation \in normCall.variations :
           normCall' = [phase |-> "renormalized", name |-> StrName(variation),
                        variations |-> GenerateNameVariations(variation)]
    /\ UNCHANGED <<mergeVars, draftVars, matchVars, auxVars>>

NormNext ==
    \/ ReturnVariations
    \/ NormalizeVariation

NormSpec == NormInit /\ [][NormNext]_vars

\* C11: the variations of "D.K. Metcalf Jr." contain "dk metcalf", periods and
\* suffix both stripped, so the candidate hits an index keyed from
\* "DK Metcalf".
C11_MetcalfSuffixStripped ==
    (normCall.phase = "returned" /\ normCall.name = StrName("D.K. Metcalf Jr."))
        => /\ "dk metcalf" \in normCall.variations
           /\ normCall.variations \cap GenerateNameVariations("DK Metcalf") # {}

(***************************************************************************)
(* The matchers on the names of the specification's scenarios.             *)
(***************************************************************************)
ScenarioAdp ==
    {AdpPlayer("Josh Allen", 12), AdpPlayer("Christian McCaffrey", 1),
     AdpPlayer("Kenneth Walker", 30)}

ScenarioNfl ==
    {NflRow("K.Walker", "Kenneth Walker III", 1),
     NflRow("C.McCaffrey", "Christian McCaffrey", 1)}

\* the rosters of the scenarios, in list order
ScenarioRosters ==
    LET josh == RosterPlayer("s1", "Josh Allen", "Josh", "Allen")
        initial == RosterPlayer("s3", "J. Allen", "", "")
        blank == RosterPlayer("s4", "", "Josh", "Allen")
        mccaffrey == RosterPlayer("s7", "C. McCaffrey", "", "")
        walker == RosterPlayer("s8", "Kenneth Walker III", "Kenneth", "Walker III")
    IN {<< >>, <<josh>>, <<initial>>, <<blank>>, <<mccaffrey>>, <<walker>>,
        <<josh, initial>>, <<initial, josh>>, <<josh, blank>>, <<blank, josh>>,
        <<blank, initial>>, <<mccaffrey, walker>>, <<initial, mccaffrey>>,
        <<walker, josh>>}

\* the ADP collections of the scenarios, in dict order
ScenarioAdpCollections ==
    LET allen == AdpPlayer("Josh Allen", 12)
        mccaffrey == AdpPlayer("Christian McCaffrey", 1)
        walker == AdpPlayer("Kenneth Walker", 30)
    IN {<< >>, <<allen>>, <<mccaffrey>>, <<walker>>, <<allen, mccaffrey>>,
        <<mccaffrey, allen>>, <<mccaffrey, walker>>, <<walker, allen>>}

ScenarioFrames == {<< >>} \cup {<<nfl_row>> : nfl_row \in ScenarioNfl}

ScenarioInit ==
    /\ IdleMerge
    /\ IdleAux
    /\ IdleDraft
    /\ fantasy_players \in ScenarioRosters
    /\ adp_players \in ScenarioAdpCollections
    /\ nfl_stats \in ScenarioFrames
    /\ adp_lookup = EmptyIndex
    /\ sleeper_by_name = EmptyIndex
    /\ sleeper_by_parts = EmptyIndex
    /\ matchedRecords = << >>
    /\ matchRun = NoMatchRun
    /\ IdleNorm

ScenarioSpec == ScenarioInit /\ [][MatchNext]_vars

\* only "Christian McCaffrey" is in the ADP collection and a pass has returned
McCaffreyResolved ==
    /\ matchRun.adp_status = "returned"
    /\ matchRun.adp_passes > 0
    /\ adp_players = <<AdpPlayer("Christian McCaffrey", 1)>>

\* C12: a candidate named "C. McCaffrey" resolved against an index built only
\* from "Christian McCaffrey" is matched by an exact key hit, and matched_via
\* reports the variation that hit.
C12_InitialMcCaffreyMatches ==
    McCaffreyResolved =>
        \A i \in 1..Len(fantasy_players) :
            fantasy_players[i].player_name = "C. McCaffrey" =>
                /\ fantasy_players[i].adp_data.kind = "data"
                /\ fantasy_players[i].adp_data.matched_via
                       \in GenerateNameVariations("C. McCaffrey")
                               \cap DOMAIN adp_lookup
                /\ adp_lookup[fantasy_players[i].adp_data.matched_via].name
                       = "Christian McCaffrey"
                /\ fantasy_players[i].adp_data.average_adp = 1

C12_Witness ==
    /\ McCaffreyResolved
    /\ \E i \in 1..Len(fantasy_players) :
           /\ fantasy_players[i].player_name = "C. McCaffrey"
           /\ fantasy_players[i].adp_data.kind = "data"
           /\ fantasy_players[i].adp_data.matched_via = "christian mccaffrey"

\* C13: normalization is stable: every variation v that
\* generate_name_variations returned for a name is itself among the
\* variations generate_name_variations returns for v.
C13_VariationsStable ==
    normCall.phase = "renormalized"
        => normCall.name.value \in normCall.variations

C13_Witness ==
    /\ normCall.phase = "renormalized"
    /\ normCall.name = StrName("d. metcalf jr.")
    /\ "d. metcalf jr." \in normCall.variations

BlankInput(name) == name.kind = "none" \/ Strip(name.value) = ""

\* C14: generate_name_variations returns for every name; for an empty, blank
\* or null name it returns nothing, and the empty string is never among the
\* variations it returns.
C14_BlankNameNoVariations ==
    normCall.phase \in {"returned", "renormalized"}
        => /\ "" \notin normCall.variations
           /\ BlankInput(normCall.name) => normCall.variations = {}

C14_Witness ==
    /\ normCall.phase = "returned"
    /\ normCall.name = StrName("   ")
    /\ normCall.variations = {}

\* everything the loop of lines 966-970 may try for a player
SleeperVariations(player) ==
    PrimaryVariations(player) \cup FullNameVariations(player)

IsMatched(player) == player.adp_data.kind = "data"

\* a pass over the roster has returned and built its lookup
PassReturned ==
    /\ matchRun.adp_status = "returned"
    /\ matchRun.adp_passes > 0
    /\ adp_players # << >>

\* C15: against one lookup, a candidate whose variations are a superset of
\* those of a candidate that matched is matched as well, so enlarging the
\* variation sets never lowers the number of matched players.
C15_CoverageMonotone ==
    PassReturned =>
        \A i, j \in 1..Len(fantasy_players) :
            (/\ SleeperVariations(fantasy_players[i])
                    \subseteq SleeperVariations(fantasy_players[j])
             /\ IsMatched(fantasy_players[i]))
                => IsMatched(fantasy_players[j])

C15_Witness ==
    /\ PassReturned
    /\ \E i, j \in 1..Len(fantasy_players) :
           /\ fantasy_players[i].player_name = "Josh Allen"
           /\ fantasy_players[j].player_name = "J. Allen"
           /\ SleeperVariations(fantasy_players[i])
                  \subseteq SleeperVariations(fantasy_players[j])
           /\ SleeperVariations(fantasy_players[i])
                  # SleeperVariations(fantasy_players[j])
           /\ IsMatched(fantasy_players[i])
           /\ IsMatched(fantasy_players[j])

\* a step in which enhanced_match_players_to_adp is called
PassStep == matchRun'.adp_passes = matchRun.adp_passes + 1

\* C16: a matching pass returns exactly the roster players it was given, and
\* every player without a counterpart carries adp_data = None, also when the
\* ADP collection is empty.
C16_PassKeepsEveryPlayer ==
    [][PassStep =>
          /\ matchRun'.adp_status = "returned"
          /\ Len(fantasy_players') = Len(fantasy_players)
          /\ \A i \in 1..Len(fantasy_players) :
                 /\ fantasy_players'[i].sleeper_id = fantasy_players[i].sleeper_id
                 /\ ~IsMatched(fantasy_players'[i])
                        => fantasy_players'[i].adp_data = AdpNone]_vars

(***************************************************************************)
(* The matchers on a roster with malformed entries.                        *)
(***************************************************************************)
\* an entry of the cached player list that has no "player_name" key
NamelessPlayer(id, first_name, last_name) ==
    [sleeper_id |-> id, first_name |-> first_name, last_name |-> last_name,
     position |-> "QB", team |-> "BUF", adp_data |-> NoAdpKey]

MalformedRoster ==
    {RosterPlayer("s1", "Josh Allen", "Josh", "Allen"),
     RosterPlayer("s7", "C. McCaffrey", "", ""),
     NamelessPlayer("s9", "Josh", "Allen"),
     NamelessPlayer("s10", "", "")}

MalformedInit ==
    /\ IdleMerge
    /\ IdleAux
    /\ IdleDraft
    /\ fantasy_players \in DistinctSeqs(MalformedRoster, MaxRoster)
    /\ adp_players \in DistinctSeqs(ScenarioAdp, MaxAdp)
    /\ nfl_stats \in DistinctSeqs(ScenarioNfl, MaxNflRows)
    /\ adp_lookup = EmptyIndex
    /\ sleeper_by_name = EmptyIndex
    /\ sleeper_by_parts = EmptyIndex
    /\ matchedRecords = << >>
    /\ matchRun = NoMatchRun
    /\ IdleNorm

MalformedSpec == MalformedInit /\ [][MatchNext]_vars

HasNameless == \E i \in 1..Len(fantasy_players) : ~HasName(fantasy_players[i])

\* a step in which match_sleeper_to_nfl is called
NflStep == matchRun.nfl_status = "not_run" /\ matchRun'.nfl_status # "not_run"

\* C17: a roster record without its name field is resolved as unmatched and
\* no exception is raised: both matchers return, and the other records of
\* the pass are resolved.
C17_NamelessResolvesUnmatched ==
    [][/\ (PassStep /\ HasNameless) =>
              /\ matchRun'.adp_status = "returned"
              /\ \A i \in 1..Len(fantasy_players) :
                     IF HasName(fantasy_players[i])
                     THEN adp_players # << >>
                              => fantasy_players'[i].adp_data # NoAdpKey
                     ELSE ~IsMatched(fantasy_players'[i])
       /\ (NflStep /\ HasNameless) => matchRun'.nfl_status = "returned"]_vars

(***************************************************************************)
(* Weekly merges: malformed rows and the order of the weeks.               *)
(***************************************************************************)
MalformedRow(row) == row.kind = "non_dict" \/ TrackerRowSkipped(row)

\* every well-formed row of the batch has its week in the store
WellFormedRowsStored(file, rows, week) ==
    /\ file.kind = "ok"
    /\ \A i \in 1..Len(rows) :
           ~MalformedRow(rows[i]) =>
               /\ rows[i].player_id \in DOMAIN file.data
               /\ DictHas(file.data[rows[i].player_id].weekly_performances,
                          ToString(week))

\* every dict record of the batch has its key in the collector's store
DictRecordsStored(file, records) ==
    /\ file.kind = "ok"
    /\ \A i \in 1..Len(records) :
           records[i].kind = "dict" =>
               DedupKey(records[i]) \in ExistingKeys(file.data.performances)

\* a tracker run on a batch with a malformed row whose write is not cut short
MalformedTrackerRun ==
    /\ runs' = runs + 1
    /\ lastRun'.op = "tracker"
    /\ lastRun'.week > 0
    /\ \E i \in 1..Len(lastRun'.rows) : MalformedRow(lastRun'.rows[i])
    /\ trackerFile'.kind # "torn"

\* a collector save of a batch with a non-dict record whose write is not cut
\* short
MalformedCollectorRun ==
    /\ runs' = runs + 1
    /\ lastRun'.op = "save_performance_data"
    /\ \E i \in 1..Len(lastRun'.rows) : lastRun'.rows[i].kind # "dict"
    /\ perfFile'.kind # "torn"

\* C18: a malformed row of a week's batch (not a dict, or without player id
\* or name) is handled locally: the merge completes, persists every
\* well-formed row of the batch and reports success.
C18_MalformedRowHandledLocally ==
    [][/\ MalformedTrackerRun =>
              /\ lastRun'.returned
              /\ WellFormedRowsStored(trackerFile', lastRun'.rows, lastRun'.week)
       /\ MalformedCollectorRun =>
              /\ lastRun'.returned
              /\ DictRecordsStored(perfFile', lastRun'.rows)]_vars

\* C19: in whatever order the weeks were merged, each player's
\* weekly_performances in the persisted store are ordered by week ascending.
C19_WeeksAscending ==
    trackerFile.kind = "ok" =>
        \A p \in DOMAIN trackerFile.data :
            \A i, j \in 1..Len(trackerFile.data[p].weekly_performances) :
                i < j => StoredWeeks(trackerFile.data[p])[i].week
                             < StoredWeeks(trackerFile.data[p])[j].week

(***************************************************************************)
(* Token overlap between a candidate and the ADP names.                    *)
(***************************************************************************)
TokenSet(name) ==
    LET tokens == Split(Lower(name))
    IN {tokens[i] : i \in 1..Len(tokens)}

\* the overlap asked of a fuzzy match: 2 tokens, or 1 for a one-word name
TokensNeeded(name) == IF Cardinality(TokenSet(name)) = 1 THEN 1 ELSE 2

HasFuzzyCounterpart(player) ==
    \E k \in 1..Len(adp_players) :
        Cardinality(TokenSet(player.player_name)
                        \cap TokenSet(adp_players[k].name))
            >= TokensNeeded(player.player_name)

\* C20: a candidate none of whose variations is a key of the lookup is still
\* matched, by token overlap, to an ADP entry that shares at least 2 word
\* tokens with its display name (1 for a one-word name); it stays unmatched
\* only if that fails too.
C20_FuzzyFallback ==
    PassReturned =>
        \A i \in 1..Len(fantasy_players) :
            (/\ SleeperVariations(fantasy_players[i]) \cap DOMAIN adp_lookup = {}
             /\ HasFuzzyCounterpart(fantasy_players[i]))
                => IsMatched(fantasy_players[i])

\* C21: resolution reads its inputs only: a pass changes neither the roster
\* records it resolves nor the ADP records the lookup maps to.
C21_ResolveReadOnly ==
    [][PassStep =>
          /\ fantasy_players' = fantasy_players
          /\ adp_players' = adp_players]_vars

\* the rows of a batch that are dicts
WellFormedRows(rows) == SelectSeq(rows, LAMBDA record : record.kind = "dict")

\* the number of records a store file holds (a file not yet written holds none)
StoredCount(file) ==
    IF file.kind = "ok" THEN Len(file.data.performances) ELSE 0

\* C22: every save_performance_data call reports added + skipped duplicates
\* equal to the number of well-formed rows of its batch, and a call that
\* saves leaves the store with the previous record count plus the added.
C22_MergeSummaryConsistent ==
    [][(lastRun'.op = "save_performance_data" /\ runs' = runs + 1)
          => /\ lastRun'.new_records + lastRun'.duplicates
                   = Len(WellFormedRows(lastRun'.rows))
             /\ (lastRun'.saved /\ perfFile.kind \in {"ok", "missing"})
                   => StoredCount(perfFile')
                         = StoredCount(perfFile) + lastRun'.new_records]_vars

\* the counting half of C22 on its own
C22_CountsAddUp ==
    [][(lastRun'.op = "save_performance_data" /\ runs' = runs + 1)
          => lastRun'.new_records + lastRun'.duplicates
                   = Len(WellFormedRows(lastRun'.rows))]_vars

(***************************************************************************)
(* Roster filtering: filter_sleeper_players_inline (collect_nfl_data.py)   *)
(* and PlayerDatabaseRefresher.clean_player_data                           *)
(* (refresh_player_database.py).  A raw Sleeper record is a record holding *)
(* the keys the API sent with a string or list value; "nulls" holds the    *)
(* keys it sent with the JSON value null.  None is what a Python None      *)
(* becomes in an emitted record: it is no team code and no position.       *)
(***************************************************************************)
MaxRaw == 2

None == "None"

active_teams ==
    {"ARI", "ATL", "BAL", "BUF", "CAR", "CHI", "CIN", "CLE", "DAL", "DEN",
     "DET", "GB", "HOU", "IND", "JAX", "KC", "LV", "LAC", "LAR", "MIA",
     "MIN", "NE", "NO", "NYG", "NYJ", "PHI", "PIT", "SEA", "SF", "TB",
     "TEN", "WAS"}

inactive_statuses ==
    {"Inactive", "Reserve/Injured", "Reserve/PUP", "Suspended", "Retired"}

valid_positions == {"QB", "RB", "WR", "TE", "K", "DEF"}

RawCatalogue ==
    { [kind |-> "dict", nulls |-> {}, position |-> "QB",
       fantasy_positions |-> <<"QB">>, team |-> "BUF", status |-> "Active",
       first_name |-> "Josh", last_name |-> "Allen"],
      [kind |-> "dict", nulls |-> {}, position |-> "LB",
       fantasy_positions |-> <<"LB", "RB">>, team |-> "BUF",
       status |-> "Active", first_name |-> "Taysom", last_name |-> "Hill"],
      [kind |-> "dict", nulls |-> {"team"}, position |-> "WR",
       fantasy_positions |-> <<"WR">>, status |-> "Active",
       first_name |-> "Julio", last_name |-> "Jones"],
      [kind |-> "dict", nulls |-> {}, position |-> "RB",
       fantasy_positions |-> <<"RB">>, team |-> "OAK", status |-> "Active",
       first_name |-> "Josh", last_name |-> "Jacobs"],
      [kind |-> "dict", nulls |-> {}, position |-> "TE",
       fantasy_positions |-> <<"TE">>, team |-> "", status |-> "Active",
       first_name |-> "Kyle", last_name |-> "Pitts"],
      [kind |-> "dict", nulls |-> {"fantasy_positions"}, position |-> "QB",
       team |-> "KC", status |-> "Active",
       first_name |-> "Patrick", last_name |-> "Mahomes"],
      [kind |-> "dict", nulls |-> {"fantasy_positions", "position"},
       team |-> "KC", status |-> "Active",
       first_name |-> "Andy", last_name |-> "Reid"],
      [kind |-> "non_dict", nulls |-> {}],
      [kind |-> "dict", nulls |-> {}, position |-> "QB",
       fantasy_positions |-> <<"QB">>, team |-> "NE", status |-> "Retired",
       first_name |-> "Tom", last_name |-> "Brady"],
      [kind |-> "dict", nulls |-> {}, position |-> "WR",
       fantasy_positions |-> <<"WR">>, team |-> "SEA", status |-> "Active",
       first_name |-> "", last_name |-> "Metcalf"],
      [kind |-> "dict", nulls |-> {}, fantasy_positions |-> <<"K">>,
       team |-> "KC", status |-> "Active",
       first_name |-> "Harrison", last_name |-> "Butker"],
      [kind |-> "dict", nulls |-> {}, position |-> "LB",
       fantasy_positions |-> << >>, team |-> "DAL", status |-> "Active",
       first_name |-> "Micah", last_name |-> "Parsons"],
      [kind |-> "dict", nulls |-> {"years_exp"}, position |-> "WR",
       fantasy_positions |-> <<"WR">>, team |-> "MIA", status |-> "Active",
       first_name |-> "Tyreek", last_name |-> "Hill"] }

\* every dict of at most MaxRaw raw records, in dict order; the key of the
\* i-th record is ToString(i)
RECURSIVE RawSeqs(_)
RawSeqs(n) ==
    IF n = 0
    THEN {<< >>}
    ELSE LET shorter == RawSeqs(n - 1)
         IN shorter \cup
            {Append(raws, raw) :
                raws \in {r \in shorter : Len(r) = n - 1}, raw \in RawCatalogue}

RawDicts == RawSeqs(MaxRaw)

\* player_data.get(key, default) for a key with a string value
GetStr(player_data, key, default) ==
    IF key \in DOMAIN player_data THEN player_data[key]
    ELSE IF key \in player_data.nulls THEN None
    ELSE default

\* player_data.get("fantasy_positions", []) is falsy: absent, null or empty
NoFantasyPositions(player_data) ==
    \/ "fantasy_positions" \notin DOMAIN player_data
    \/ player_data.fantasy_positions = << >>

\* any(pos in positions for pos in fantasy_positions), for a list
AnyPositionIn(fantasy_positions, positions) ==
    \E i \in 1..Len(fantasy_positions) : fantasy_positions[i] \in positions

\* Python "not value" for a string or None
Falsy(value) == value = "" \/ value = None

\* the tests of filter_sleeper_players_inline that "continue"
FilterSkips(player_data) ==
    \/ player_data.kind # "dict"
    \/ NoFantasyPositions(player_data)
    \/ ~AnyPositionIn(player_data.fantasy_positions, valid_positions)
    \/ Falsy(GetStr(player_data, "team", None))
    \/ GetStr(player_data, "team", None) \notin active_teams
    \/ GetStr(player_data, "status", "Active") \in inactive_statuses
    \/ Falsy(GetStr(player_data, "first_name", ""))
    \/ Falsy(GetStr(player_data, "last_name", ""))

\* int(None) and None.lower() in the dict literal raise
FilterRaises(player_data) ==
    \/ "years_exp" \in player_data.nulls
    \/ "search_full_name" \in player_data.nulls

FilteredPlayer(player_id, player_data) ==
    [sleeper_id |-> player_id,
     player_name |-> player_data.first_name \o " " \o player_data.last_name,
     first_name |-> player_data.first_name,
     last_name |-> player_data.last_name,
     position |-> player_data.fantasy_positions[1],
     team |-> player_data.team,
     status |-> GetStr(player_data, "status", "Active")]

\* the loop of filter_sleeper_players_inline from item i on
RECURSIVE FilterFrom(_, _, _)
FilterFrom(all_players, i, filtered) ==
    IF i > Len(all_players)
    THEN [status |-> "returned", emitted |-> filtered]
    ELSE IF FilterSkips(all_players[i])
    THEN FilterFrom(all_players, i + 1, filtered)
    ELSE IF FilterRaises(all_players[i])
    THEN [status |-> "raised", emitted |-> << >>]
    ELSE FilterFrom(all_players, i + 1,
                    Append(filtered, FilteredPlayer(ToString(i), all_players[i])))

FilterSleeperPlayersInline(all_players) ==
    /\ rosterCall' = [op |-> "filter_sleeper_players_inline",
                      raw |-> all_players]
                     @@ FilterFrom(all_players, 1, << >>)
    /\ UNCHANGED <<mergeVars, draftVars, matchVars, normCall>>
    /\ UNCHANGED <<adpLoad, insightRun, validator, adpHistory>>

\* "position not in fantasy_positions and not any(...)": the any() is
\* reached only when the position is no fantasy position, and iterating a
\* null fantasy_positions raises TypeError
CleanRaises(player_data) ==
    /\ GetStr(player_data, "position", "") \notin valid_positions
    /\ "fantasy_positions" \in player_data.nulls

CleanSkips(player_data) ==
    \/ player_data.kind # "dict"
    \/ /\ GetStr(player_data, "position", "") \notin valid_positions
       /\ \/ "fantasy_positions" \notin DOMAIN player_data
          \/ ~AnyPositionIn(player_data.fantasy_positions, valid_positions)

CleanedPlayer(player_id, player_data) ==
    LET first_name == GetStr(player_data, "first_name", "")
        last_name == GetStr(player_data, "last_name", "")
        full_name == GetStr(player_data, "full_name", "")
    IN [player_id |-> player_id,
        first_name |-> first_name,
        last_name |-> last_name,
        full_name |-> IF Falsy(full_name) /\ ~Falsy(first_name)
                         /\ ~Falsy(last_name)
                      THEN first_name \o " " \o last_name
                      ELSE full_name,
        position |-> GetStr(player_data, "position", ""),
        team |-> GetStr(player_data, "team", ""),
        status |-> GetStr(player_data, "status", "Active")]

\* the loop of clean_player_data from item i on; an exception is caught
\* and {} returned
RECURSIVE CleanFrom(_, _, _)
CleanFrom(raw_players, i, cleaned_players) ==
    IF i > Len(raw_players)
    THEN [status |-> "returned", emitted |-> cleaned_players]
    ELSE IF raw_players[i].kind = "dict" /\ CleanRaises(raw_players[i])
    THEN [status |-> "error", emitted |-> << >>]
    ELSE IF CleanSkips(raw_players[i])
    THEN CleanFrom(raw_players, i + 1, cleaned_players)
    ELSE CleanFrom(raw_players, i + 1,
                   Append(cleaned_players,
                          CleanedPlayer(ToString(i), raw_players[i])))

CleanPlayerData(raw_players) ==
    /\ rosterCall' = [op |-> "clean_player_data", raw |-> raw_players]
                     @@ CleanFrom(raw_players, 1, << >>)
    /\ UNCHANGED <<mergeVars, draftVars, matchVars, normCall>>
    /\ UNCHANGED <<adpLoad, insightRun, validator, adpHistory>>

RosterNext ==
    \/ \E all_players \in RawDicts : FilterSleeperPlayersInline(all_players)
    \/ \E raw_players \in RawDicts : CleanPlayerData(raw_players)

RosterSpec == Init /\ [][RosterNext]_vars

EmittedValid(player) ==
    /\ player.position \in valid_positions
    /\ player.team # ""
    /\ player.team \in active_teams

\* C23: every emitted roster record has a position in
\* {QB, RB, WR, TE, K, DEF} and a non-blank team of the active-team set.
C23_EmittedRosterValid ==
    \A i \in 1..Len(rosterCall.emitted) : EmittedValid(rosterCall.emitted[i])

\* the team half of C23 for filter_sleeper_players_inline alone
C23_FilterTeamValid ==
    rosterCall.op = "filter_sleeper_players_inline"
        => \A i \in 1..Len(rosterCall.emitted) :
              rosterCall.emitted[i].team \in active_teams

\* the metrics of a player describe the weeks stored for the player; a
\* player whose advanced_metrics is still the empty dict has none to check
MetricsDescribeStoredWeeks(player_data) ==
    LET ppr_points == PprPoints(player_data.weekly_performances)
        metrics == player_data.advanced_metrics
    IN metrics # NoMetrics
          => /\ metrics.weeks_played = Len(ppr_points)
             /\ ppr_points # << >>
                   => /\ metrics.ceiling = MaxSeq(ppr_points)
                      /\ metrics.floor = MinSeq(ppr_points)

\* C24: in every saved store, each player's weeks_played, ceiling and floor
\* are those of the weekly records stored for that player at that time.
C24_MetricsFollowStoredWeeks ==
    trackerFile.kind = "ok"
        => \A p \in DOMAIN trackerFile.data :
              MetricsDescribeStoredWeeks(trackerFile.data[p])

\* two records are of the same player: the same sleeper_id, and for records
\* without one the same player name
SamePlayer(a, b) ==
    /\ a.sleeper_id = b.sleeper_id
    /\ a.sleeper_id = "" => a.player_name = b.player_name

\* row i of the batch has the player and week of a stored record or of an
\* earlier row of the batch
TrueDuplicate(file, rows, i) ==
    \/ /\ file.kind = "ok"
       /\ \E k \in 1..Len(file.data.performances) :
             /\ file.data.performances[k].kind = "dict"
             /\ SamePlayer(file.data.performances[k], rows[i])
             /\ file.data.performances[k].week = rows[i].week
    \/ \E j \in 1..(i - 1) :
          /\ rows[j].kind = "dict"
          /\ SamePlayer(rows[j], rows[i])
          /\ rows[j].week = rows[i].week

\* C25: a save_performance_data call that loaded the store and saved has
\* stored every well-formed row of its batch that is not a true duplicate
\* (same player, same week), rows without sleeper_id included.
C25_OnlyTrueDuplicatesSkipped ==
    [][(/\ lastRun'.op = "save_performance_data" /\ runs' = runs + 1
        /\ lastRun'.saved /\ (lastRun'.loaded \/ perfFile.kind = "missing"))
          => \A i \in 1..Len(lastRun'.rows) :
                (/\ lastRun'.rows[i].kind = "dict"
                 /\ ~TrueDuplicate(perfFile, lastRun'.rows, i))
                   => \E k \in 1..Len(perfFile'.data.performances) :
                         perfFile'.data.performances[k] = lastRun'.rows[i]]_vars

\* C26: a pass over a roster whose entries all have a name completes and
\* returns the roster, whatever the coverage: an empty roster and a roster
\* without any match included.
C26_PassCompletes ==
    [][(/\ PassStep
        /\ \A i \in 1..Len(fantasy_players) : HasName(fantasy_players[i]))
          => matchRun'.adp_status = "returned"]_vars

\* C26 for the rosters that have at least one player
C26_NonEmptyRosterCompletes ==
    [][(/\ PassStep
        /\ fantasy_players # << >>
        /\ \A i \in 1..Len(fantasy_players) : HasName(fantasy_players[i]))
          => matchRun'.adp_status = "returned"]_vars

(***************************************************************************)
(* load_adp_data (collect_nfl_data.py).  One step per URL attempt.  Each   *)
(* player of adp_database["players"] is a record whose "formats" holds the *)
(* per-format keys ("standard", "ppr", "half_ppr") the code sets on the    *)
(* player dict.  "winner" remembers, for each format, the players_data of  *)
(* the attempt that reached "success = True".                              *)
(***************************************************************************)
FormatNames == <<"standard", "ppr", "half_ppr">>

\* urls_to_try = [api_url] + fallback_endpoints[format_name]
UrlsPerFormat == 4

AdpEntry(name, adp) == [nulls |-> {}, name |-> name, position |-> "QB",
                        team |-> "BUF", adp |-> adp, rank |-> 1,
                        times_drafted |-> 100]

\* an entry the API sent with "adp": null
AdpEntryNullAdp(name) == [nulls |-> {"adp"}, name |-> name,
                          position |-> "QB", team |-> "BUF", rank |-> 1,
                          times_drafted |-> 100]

\* the "players" lists a response can carry
ResponseCatalogue ==
    { <<AdpEntry("Josh Allen", 10)>>,
      <<AdpEntry("Josh Allen", 20), AdpEntryNullAdp("Kyle Pitts")>>,
      <<AdpEntry(" Kyle Pitts ", 30)>>,
      <<AdpEntry(" ", 40), AdpEntry("Josh Allen", 999)>> }

\* why an attempt ends in "continue" before any player is processed
AttemptFailures == {"request_exception", "json_decode_error", "no_players"}

NoWinner == << >>

\* float(None), int(None)
ConversionRaises(player_data) ==
    player_data.nulls \cap {"adp", "rank", "times_drafted"} # {}

GetNum(player_data, key, default) ==
    IF key \in DOMAIN player_data THEN player_data[key] ELSE default

FormatEntry(player_data) ==
    [adp |-> GetNum(player_data, "adp", 999),
     rank |-> GetNum(player_data, "rank", 999),
     times_drafted |-> GetNum(player_data, "times_drafted", 0)]

AdpShell(player_name, player_data) ==
    [name |-> player_name,
     position |-> GetStr(player_data, "position", ""),
     team |-> GetStr(player_data, "team", ""),
     formats |-> EmptyIndex]

\* the loop "for player_data in players_data" from item i on, writing into
\* adp_database["players"] as it goes
RECURSIVE ProcessAdpPlayers(_, _, _, _)
ProcessAdpPlayers(players, players_data, format_name, i) ==
    IF i > Len(players_data)
    THEN [players |-> players, raised |-> FALSE]
    ELSE LET player_data == players_data[i]
         IN IF "name" \in player_data.nulls
            THEN [players |-> players, raised |-> TRUE]
            ELSE LET player_name == Strip(GetStr(player_data, "name", ""))
                     seen == IF player_name \in DOMAIN players
                             THEN players
                             ELSE IndexPut(players, player_name,
                                           AdpShell(player_name, player_data))
                 IN IF player_name = ""
                    THEN ProcessAdpPlayers(players, players_data, format_name,
                                           i + 1)
                    ELSE IF ConversionRaises(player_data)
                    THEN [players |-> seen, raised |-> TRUE]
                    ELSE ProcessAdpPlayers(
                             [seen EXCEPT ![player_name].formats =
                                 IndexPut(@, format_name,
                                          FormatEntry(player_data))],
                             players_data, format_name, i + 1)

\* lines 137-173: the empty adp_database, before the first attempt
StartLoadAdpData ==
    /\ adpLoad.phase \in {"idle", "done"}
    /\ adpLoad' = [phase |-> "fetching", format |-> 1, attempt |-> 1,
                   players |-> EmptyIndex, successful_formats |-> 0,
                   winner |-> [f \in 1..Len(FormatNames) |-> NoWinner]]
    /\ UNCHANGED <<mergeVars, draftVars, matchVars, normCall>>
    /\ UNCHANGED <<rosterCall, insightRun, validator, adpHistory>>

\* after an attempt that did not succeed: the next URL, or the next format
\* once all URLs were tried ("All URL attempts failed")
NextAttempt(load) ==
    IF load.attempt < UrlsPerFormat
    THEN [load EXCEPT !.attempt = @ + 1]
    ELSE [load EXCEPT !.format = @ + 1, !.attempt = 1]

\* after "success = True; break"
NextFormat(load) == [load EXCEPT !.format = @ + 1, !.attempt = 1]

Fetching == adpLoad.phase = "fetching" /\ adpLoad.format <= Len(FormatNames)

\* the request raises, the body is no JSON, or it has no players
AttemptFails(failure) ==
    /\ Fetching
    /\ adpLoad' = NextAttempt(adpLoad)
    /\ UNCHANGED <<mergeVars, draftVars, matchVars, normCall>>
    /\ UNCHANGED <<rosterCall, insightRun, validator, adpHistory>>

\* the response carries players_data: its players are processed, and an
\* exception in the loop ends the attempt like any other failure
AttemptProcesses(players_data) ==
    /\ Fetching
    /\ LET result == ProcessAdpPlayers(adpLoad.players, players_data,
                                       FormatNames[adpLoad.format], 1)
           written == [adpLoad EXCEPT !.players = result.players]
       IN adpLoad' =
              IF result.raised
              THEN NextAttempt(written)
              ELSE NextFormat([written EXCEPT
                                  !.successful_formats = @ + 1,
                                  !.winner[adpLoad.format] = players_data])
    /\ UNCHANGED <<mergeVars, draftVars, matchVars, normCall>>
    /\ UNCHANGED <<rosterCall, insightRun, validator, adpHistory>>

\* the adp values below 999 of a player, in the order standard, ppr, half_ppr
AdpValues(player_data) ==
    LET present == SelectSeq(FormatNames,
                       LAMBDA f : f \in DOMAIN player_data.formats)
        values == [i \in 1..Len(present) |-> player_data.formats[present[i]].adp]
    IN SelectSeq(values, LAMBDA adp_val : adp_val < 999)

\* round(sum(adp_values) / len(adp_values), 1), in tenths; with at most three
\* integer values the quotient is never halfway between two tenths
AverageAdp(player_data) ==
    LET adp_values == AdpValues(player_data)
    IN IF adp_values = << >>
       THEN 9990
       ELSE (20 * SumSeq(adp_values) + Len(adp_values))
                \div (2 * Len(adp_values))

\* lines 781-807: the averages, then the database is saved and returned when
\* some format succeeded, and {} is returned otherwise
FinishLoadAdpData ==
    /\ adpLoad.phase = "fetching"
    /\ adpLoad.format > Len(FormatNames)
    /\ LET players == [n \in DOMAIN adpLoad.players |->
                          [name |-> adpLoad.players[n].name,
                           position |-> adpLoad.players[n].position,
                           team |-> adpLoad.players[n].team,
                           formats |-> adpLoad.players[n].formats,
                           average_adp |-> AverageAdp(adpLoad.players[n])]]
       IN adpLoad' = [phase |-> "done",
                      successful_formats |-> adpLoad.successful_formats,
                      winner |-> adpLoad.winner,
                      saved |-> adpLoad.successful_formats > 0,
                      returned |-> IF adpLoad.successful_formats > 0
                                   THEN players ELSE EmptyIndex]
    /\ UNCHANGED <<mergeVars, draftVars, matchVars, normCall>>
    /\ UNCHANGED <<rosterCall, insightRun, validator, adpHistory>>

AdpLoadNext ==
    \/ StartLoadAdpData
    \/ \E failure \in AttemptFailures : AttemptFails(failure)
    \/ \E players_data \in ResponseCatalogue : AttemptProcesses(players_data)
    \/ FinishLoadAdpData

AdpLoadSpec == Init /\ [][AdpLoadNext]_vars

\* the entry the successful response of a format gives a player: that of the
\* last item of the response with the player's name
WrittenByWinner(players_data, player_name, entry) ==
    \E i \in 1..Len(players_data) :
        /\ "name" \in DOMAIN players_data[i]
        /\ Strip(players_data[i].name) = player_name
        /\ entry = FormatEntry(players_data[i])
        /\ \A j \in (i + 1)..Len(players_data) :
              Strip(players_data[j].name) # player_name

\* C27: in the database load_adp_data returns, every per-format entry of a
\* player was written by the one successful response of that format; a
\* format without a successful attempt has no entry for any player.
C27_EntriesFromSuccessfulResponse ==
    adpLoad.phase = "done"
        => \A n \in DOMAIN adpLoad.returned :
              \A f \in 1..Len(FormatNames) :
                 FormatNames[f] \in DOMAIN adpLoad.returned[n].formats
                    => /\ adpLoad.winner[f] # NoWinner
                       /\ WrittenByWinner(adpLoad.winner[f], n,
                             adpLoad.returned[n].formats[FormatNames[f]])

\* the attempt order of C27: there is at most one successful response per
\* format, and successful_formats counts the formats that have one
C27_OneWinnerPerFormat ==
    adpLoad.phase = "done"
        => adpLoad.successful_formats
              = Cardinality({f \in 1..Len(FormatNames) :
                                adpLoad.winner[f] # NoWinner})

(***************************************************************************)
(* generate_performance_insights (weekly_performance_tracker.py) on a      *)
(* store whose advanced_metrics were written by calculate_advanced_metrics *)
(* with the grade of calculate_adp_performance_grade.  Averages are kept   *)
(* in hundredths of a point.  Of the insight lists the model keeps the     *)
(* four that depend on the average and the ADP only: top_performers,       *)
(* adp_steals, adp_busts and biggest_disappointments.                      *)
(***************************************************************************)
MaxGraded == 2

\* the [:20] of "Limit results"
InsightLimit == 20

\* adp_integration.get('adp', 999)
AdpOf(adp_integration) ==
    IF "adp" \in DOMAIN adp_integration THEN adp_integration.adp ELSE 999

ExpectedPpg(adp) ==
    IF adp <= 12 THEN 15
    ELSE IF adp <= 24 THEN 12
    ELSE IF adp <= 60 THEN 8
    ELSE IF adp <= 120 THEN 5
    ELSE 3

\* avg_points is the mean total/count of the played weeks;
\* performance_ratio >= r/10 is 10 * total >= r * count * expected_ppg
CalculateAdpPerformanceGrade(adp, avg_points, weeks_played) ==
    LET expected_ppg == ExpectedPpg(adp)
        RatioAtLeast(tenths) ==
            10 * avg_points.total >= tenths * avg_points.count * expected_ppg
    IN IF adp > 200 \/ weeks_played < 2 THEN "N/A"
       ELSE IF RatioAtLeast(13) THEN "A+ (Exceeding expectations)"
       ELSE IF RatioAtLeast(11) THEN "A (Meeting/exceeding expectations)"
       ELSE IF RatioAtLeast(9) THEN "B (Solid value)"
       ELSE IF RatioAtLeast(7) THEN "C (Below expectations)"
       ELSE IF RatioAtLeast(5) THEN "D (Disappointing)"
       ELSE "F (Major bust)"

\* round(avg_points, 2) in hundredths; with at most three weeks of integer
\* points the mean is never halfway between two hundredths
RoundedAverage(ppr_points) ==
    (200 * SumSeq(ppr_points) + Len(ppr_points)) \div (2 * Len(ppr_points))

\* the advanced_metrics calculate_advanced_metrics(performance_data,
\* current_week) leaves for a player shell with these played weeks
GradedMetrics(ppr_points, adp_integration, current_week) ==
    IF Len(ppr_points) < 2
    THEN NoMetrics
    ELSE [avg_ppr_points |-> RoundedAverage(ppr_points),
          adp_performance_grade |->
              CalculateAdpPerformanceGrade(
                  AdpOf(adp_integration),
                  [total |-> SumSeq(ppr_points), count |-> Len(ppr_points)],
                  current_week),
          weeks_played |-> Len(ppr_points)]

PprCatalogue ==
    {<<12>>, <<20, 24>>, <<8, 10>>, <<6, 8, 10>>, <<2, 4>>}

AdpIntegrations == {EmptyIndex, [adp |-> 10], [adp |-> 50], [adp |-> 100],
                    [adp |-> 250]}

GradedWeeks == {1, 3}

GradedPlayers ==
    {[player_name |-> "Josh Allen",
      adp_integration |-> adp_integration,
      advanced_metrics |-> GradedMetrics(ppr_points, adp_integration, week)] :
        ppr_points \in PprCatalogue, adp_integration \in AdpIntegrations,
        week \in GradedWeeks}

\* the stores of at most MaxGraded players, in dict order; the key of the
\* i-th player is ToString(i)
RECURSIVE GradedStores(_)
GradedStores(n) ==
    IF n = 0
    THEN {<< >>}
    ELSE LET shorter == GradedStores(n - 1)
         IN shorter \cup
            {Append(store, player) :
                store \in {st \in shorter : Len(st) = n - 1},
                player \in GradedPlayers}

PlayerSummary(player_id, player_data) ==
    [player_id |-> player_id,
     name |-> player_data.player_name,
     avg_points |-> IF "avg_ppr_points" \in DOMAIN player_data.advanced_metrics
                    THEN player_data.advanced_metrics.avg_ppr_points ELSE 0,
     adp |-> AdpOf(player_data.adp_integration),
     adp_grade |->
         IF "adp_performance_grade" \in DOMAIN player_data.advanced_metrics
         THEN player_data.advanced_metrics.adp_performance_grade ELSE "N/A",
     weeks_played |-> player_data.advanced_metrics.weeks_played]

\* advanced_metrics.get('adp_performance_grade', '')
GradeOf(advanced_metrics) ==
    IF "adp_performance_grade" \in DOMAIN advanced_metrics
    THEN advanced_metrics.adp_performance_grade ELSE ""

NoInsights == [top_performers |-> << >>, biggest_disappointments |-> << >>,
               adp_steals |-> << >>, adp_busts |-> << >>]

\* the body of the loop "Analyze all players" for one player
AnalyzePlayer(insights, player_id, player_data) ==
    LET advanced_metrics == player_data.advanced_metrics
        summary == PlayerSummary(player_id, player_data)
        avg_points == summary.avg_points
        adp == summary.adp
        grade == GradeOf(advanced_metrics)
        IsSteal == Contains(grade, "A+") \/ Contains(grade, "A")
        IsBustGrade == Contains(grade, "D") \/ Contains(grade, "F")
    IN IF advanced_metrics = NoMetrics \/ advanced_metrics.weeks_played < 2
       THEN insights
       ELSE [top_performers |->
                IF avg_points >= 1500
                THEN Append(insights.top_performers, summary)
                ELSE insights.top_performers,
             adp_steals |->
                IF adp <= 100 /\ IsSteal
                THEN Append(insights.adp_steals, summary)
                ELSE insights.adp_steals,
             adp_busts |->
                IF adp <= 100 /\ ~IsSteal /\ IsBustGrade
                THEN Append(insights.adp_busts, summary)
                ELSE insights.adp_busts,
             biggest_disappointments |->
                IF adp <= 100 /\ adp <= 50 /\ avg_points < 800
                THEN Append(insights.biggest_disappointments, summary)
                ELSE insights.biggest_disappointments]

RECURSIVE AnalyzeFrom(_, _, _)
AnalyzeFrom(insights, performance_data, i) ==
    IF i > Len(performance_data)
    THEN insights
    ELSE AnalyzeFrom(AnalyzePlayer(insights, ToString(i), performance_data[i]),
                     performance_data, i + 1)

\* list.sort(key=lambda x: x['avg_points'], reverse=True): stable
RECURSIVE SortByAvgPointsDesc(_)
SortByAvgPointsDesc(list) ==
    IF list = << >>
    THEN << >>
    ELSE LET sorted == SortByAvgPointsDesc(SubSeq(list, 1, Len(list) - 1))
             x == list[Len(list)]
             before == SelectSeq(sorted, LAMBDA y : y.avg_points >= x.avg_points)
             after == SelectSeq(sorted, LAMBDA y : y.avg_points < x.avg_points)
         IN before \o <<x>> \o after

\* list.sort(key=lambda x: x['adp']): stable
RECURSIVE SortByAdp(_)
SortByAdp(list) ==
    IF list = << >>
    THEN << >>
    ELSE LET sorted == SortByAdp(SubSeq(list, 1, Len(list) - 1))
             x == list[Len(list)]
             before == SelectSeq(sorted, LAMBDA y : y.adp <= x.adp)
             after == SelectSeq(sorted, LAMBDA y : y.adp > x.adp)
         IN before \o <<x>> \o after

Limited(list) == SubSeq(list, 1, Min2(InsightLimit, Len(list)))

\* the loop, the sorts, the limit and the save; a failed save or an empty
\* store returns None
GeneratePerformanceInsights(writeDone) ==
    /\ insightRun.phase = "stored"
    /\ LET performance_data == insightRun.performance_data
           analyzed == AnalyzeFrom(NoInsights, performance_data, 1)
           insights ==
               [top_performers |->
                    Limited(SortByAvgPointsDesc(analyzed.top_performers)),
                adp_steals |-> Limited(SortByAvgPointsDesc(analyzed.adp_steals)),
                adp_busts |-> Limited(SortByAdp(analyzed.adp_busts)),
                biggest_disappointments |->
                    Limited(SortByAdp(analyzed.biggest_disappointments))]
       IN insightRun' =
              [phase |-> "generated",
               performance_data |-> performance_data,
               returned |-> performance_data # << >> /\ writeDone,
               insights |-> IF performance_data = << >> THEN NoInsights
                            ELSE insights]
    /\ UNCHANGED <<mergeVars, draftVars, matchVars, normCall>>
    /\ UNCHANGED <<rosterCall, adpLoad, validator, adpHistory>>

InsightInit ==
    /\ IdleMerge /\ IdleDraft /\ IdleMatch /\ IdleNorm
    /\ IdleRoster /\ IdleAdpLoad /\ IdleValidator /\ IdleHistory
    /\ insightRun \in {[phase |-> "stored", performance_data |-> store] :
                          store \in GradedStores(MaxGraded)}

InsightNext == \E writeDone \in BOOLEAN : GeneratePerformanceInsights(writeDone)

InsightSpec == InsightInit /\ [][InsightNext]_vars

\* the stored grade of the player a summary is of
StoredGrade(summary) ==
    GradeOf(insightRun.performance_data[
                CHOOSE i \in 1..Len(insightRun.performance_data) :
                    ToString(i) = summary.player_id].advanced_metrics)

\* C28: every player listed in adp_steals is graded A+ or A, every player
\* listed in adp_busts is graded D or F, and no player graded "N/A" is in
\* either list.
C28_StealsAndBustsByGrade ==
    (insightRun.phase = "generated" /\ insightRun.returned)
        => /\ \A i \in 1..Len(insightRun.insights.adp_steals) :
                 \/ StartsWith(StoredGrade(insightRun.insights.adp_steals[i]), "A+ ")
                 \/ StartsWith(StoredGrade(insightRun.insights.adp_steals[i]), "A ")
           /\ \A i \in 1..Len(insightRun.insights.adp_busts) :
                 \/ StartsWith(StoredGrade(insightRun.insights.adp_busts[i]), "D ")
                 \/ StartsWith(StoredGrade(insightRun.insights.adp_busts[i]), "F ")

\* the adp_busts half of C28 on its own
C28_BustsByGrade ==
    (insightRun.phase = "generated" /\ insightRun.returned)
        => \A i \in 1..Len(insightRun.insights.adp_busts) :
              \/ StartsWith(StoredGrade(insightRun.insights.adp_busts[i]), "D ")
              \/ StartsWith(StoredGrade(insightRun.insights.adp_busts[i]), "F ")

(***************************************************************************)
(* DataValidator (validate_data.py), in the order main() calls it.  A file *)
(* of the data directory is known by what its validation computes from    *)
(* it: the rate of valid players, the ADP quality rate, meta.match_rate,   *)
(* whether the performance store is empty; "malformed" is content on which *)
(* the validation raises.  Messages are kept without their numbers.        *)
(***************************************************************************)
Missing == [kind |-> "missing"]

PlayersFiles ==
    {Missing, [kind |-> "not_dict"]}
        \cup {[kind |-> "ok", validation_rate |-> r] : r \in {95, 85, 70}}

AdpFiles ==
    {Missing, [kind |-> "no_players"]}
        \cup {[kind |-> "ok", adp_quality |-> q] : q \in {90, 75, 60}}

DraftFiles ==
    {Missing, [kind |-> "malformed"]}
        \cup {[kind |-> "ok", match_rate |-> m] : m \in {80, 65, 50}}

PerformanceFiles ==
    {Missing, [kind |-> "malformed"], [kind |-> "empty"], [kind |-> "ok"]}

\* the data directories a validator can meet; a missing file has no age
DataDirs ==
    {d \in [players : PlayersFiles, adp : AdpFiles, draft : DraftFiles,
            performance : PerformanceFiles, weekly_snapshots : BOOLEAN,
            performance_insights : BOOLEAN, players_stale : BOOLEAN,
            adp_stale : BOOLEAN] :
        /\ d.players = Missing => ~d.players_stale
        /\ d.adp = Missing => ~d.adp_stale}

\* DataValidator.__init__
NewValidationResults ==
    [overall_status |-> "unknown", validations |-> EmptyIndex,
     errors |-> << >>, warnings |-> << >>]

WithValidation(results, name, status) ==
    [results EXCEPT !.validations = IndexPut(@, name, [status |-> status])]

WithError(results, message) ==
    [results EXCEPT !.errors = Append(@, message)]

WithWarning(results, message) ==
    [results EXCEPT !.warnings = Append(@, message)]

RECURSIVE WithWarnings(_, _)
WithWarnings(results, messages) ==
    IF messages = << >>
    THEN results
    ELSE WithWarnings(WithWarning(results, Head(messages)), Tail(messages))

RECURSIVE WithErrors(_, _)
WithErrors(results, messages) ==
    IF messages = << >>
    THEN results
    ELSE WithErrors(WithError(results, Head(messages)), Tail(messages))

\* one validation of main(): from step pc to step next
ValidatorStep(pc, next, results) ==
    /\ validator.pc = pc
    /\ validator' = [validator EXCEPT !.pc = next,
                                      !.validation_results = results]
    /\ UNCHANGED <<mergeVars, draftVars, matchVars, normCall>>
    /\ UNCHANGED <<rosterCall, adpLoad, insightRun, adpHistory>>

ValidateFileStructure ==
    LET d == validator.dataDir
        missing_required ==
            (IF d.players = Missing THEN <<"players.json">> ELSE << >>)
            \o (IF d.adp = Missing THEN <<"adp_consolidated">> ELSE << >>)
        missing_optional ==
            (IF d.draft = Missing THEN <<"draft_database">> ELSE << >>)
            \o (IF d.performance = Missing THEN <<"performances">> ELSE << >>)
            \o (IF ~d.weekly_snapshots THEN <<"weekly_snapshots.json">>
                ELSE << >>)
            \o (IF ~d.performance_insights
                THEN <<"performance_insights.json">> ELSE << >>)
        recorded == WithValidation(validator.validation_results,
                        "file_structure",
                        IF missing_required = << >> THEN "pass" ELSE "fail")
    IN ValidatorStep("file_structure", "sleeper_database",
           WithWarnings(WithErrors(recorded, missing_required),
                        missing_optional))

ValidateSleeperDatabase ==
    LET file == validator.dataDir.players
        results == validator.validation_results
    IN ValidatorStep("sleeper_database", "adp_data",
           IF file = Missing
           THEN WithError(results, "Sleeper players.json file missing")
           ELSE IF file.kind = "not_dict"
           THEN WithError(results, "Invalid players.json format")
           ELSE LET recorded ==
                        WithValidation(results, "sleeper_database",
                            IF file.validation_rate >= 90 THEN "pass"
                            ELSE "fail")
                IN IF file.validation_rate < 90
                   THEN WithWarning(recorded, "Low Sleeper data quality")
                   ELSE recorded)

ValidateAdpData ==
    LET file == validator.dataDir.adp
        results == validator.validation_results
    IN ValidatorStep("adp_data", "draft_database",
           IF file = Missing
           THEN WithError(results, "Consolidated ADP data missing")
           ELSE IF file.kind = "no_players"
           THEN WithError(results, "No ADP player data found")
           ELSE LET recorded ==
                        WithValidation(results, "adp_data",
                            IF file.adp_quality >= 80 THEN "pass" ELSE "fail")
                IN IF file.adp_quality < 80
                   THEN WithWarning(recorded, "Low ADP data quality")
                   ELSE recorded)

ValidateDraftDatabase ==
    LET file == validator.dataDir.draft
        results == validator.validation_results
    IN ValidatorStep("draft_database", "performance_data",
           IF file = Missing
           THEN WithWarning(results, "Draft database not yet generated")
           ELSE IF file.kind = "malformed"
           THEN WithError(results, "Draft database validation error")
           ELSE WithValidation(results, "draft_database",
                    IF file.match_rate >= 70 THEN "pass" ELSE "fail"))

ValidatePerformanceData ==
    LET file == validator.dataDir.performance
        results == validator.validation_results
    IN ValidatorStep("performance_data", "data_freshness",
           IF file = Missing
           THEN WithWarning(results, "No performance data yet - may be preseason")
           ELSE IF file.kind = "malformed"
           THEN WithError(results, "Performance data validation error")
           ELSE IF file.kind = "empty"
           THEN WithWarning(results, "Empty performance data")
           ELSE WithValidation(results, "performance_data", "pass"))

ValidateDataFreshness ==
    LET d == validator.dataDir
        freshness_issues ==
            (IF d.players_stale THEN <<"players.json is too old">> ELSE << >>)
            \o (IF d.adp_stale THEN <<"adp_consolidated is too old">>
                ELSE << >>)
        recorded == WithValidation(validator.validation_results,
                        "data_freshness",
                        IF freshness_issues = << >> THEN "pass" ELSE "warning")
    IN ValidatorStep("data_freshness", "report",
                     WithWarnings(recorded, freshness_issues))

CriticalValidations == {"sleeper_database", "adp_data", "file_structure"}

OverallStatus(results) ==
    LET has_errors == Len(results.errors) > 0
        critical_failures ==
            Cardinality({name \in DOMAIN results.validations :
                            /\ results.validations[name].status = "fail"
                            /\ name \in CriticalValidations})
    IN IF has_errors \/ critical_failures > 0 THEN "fail"
       ELSE IF Len(results.warnings) > 0 THEN "warning"
       ELSE "pass"

\* the status is set before the report is written; a failed write makes the
\* function return False
GenerateValidationReport(writeDone) ==
    /\ validator.pc = "report"
    /\ LET status == OverallStatus(validator.validation_results)
       IN validator' =
              [validator EXCEPT
                  !.pc = "done",
                  !.validation_results.overall_status = status,
                  !.report_saved = writeDone,
                  !.returned = writeDone /\ status # "fail"]
    /\ UNCHANGED <<mergeVars, draftVars, matchVars, normCall>>
    /\ UNCHANGED <<rosterCall, adpLoad, insightRun, adpHistory>>

ValidatorInit ==
    /\ IdleMerge /\ IdleDraft /\ IdleMatch /\ IdleNorm
    /\ IdleRoster /\ IdleAdpLoad /\ IdleInsight /\ IdleHistory
    /\ validator \in {[pc |-> "file_structure", dataDir |-> d,
                       validation_results |-> NewValidationResults,
                       report_saved |-> FALSE, returned |-> FALSE] :
                         d \in DataDirs}

ValidatorNext ==
    \/ ValidateFileStructure
    \/ ValidateSleeperDatabase
    \/ ValidateAdpData
    \/ ValidateDraftDatabase
    \/ ValidatePerformanceData
    \/ ValidateDataFreshness
    \/ \E writeDone \in BOOLEAN : GenerateValidationReport(writeDone)

ValidatorSpec == ValidatorInit /\ [][ValidatorNext]_vars

FailedValidations(results) ==
    {name \in DOMAIN results.validations :
        results.validations[name].status = "fail"}

\* C29: a report whose overall_status is 'pass' has no recorded validation
\* with status 'fail', no errors and no warnings.
C29_PassMeansNothingFailed ==
    (validator.pc = "done"
         /\ validator.validation_results.overall_status = "pass")
        => /\ FailedValidations(validator.validation_results) = {}
           /\ validator.validation_results.errors = << >>
           /\ validator.validation_results.warnings = << >>

\* C29 without its first conjunct: an overall 'pass' has no errors and no
\* warnings
C29_PassMeansNoErrorsNoWarnings ==
    (validator.pc = "done"
         /\ validator.validation_results.overall_status = "pass")
        => /\ validator.validation_results.errors = << >>
           /\ validator.validation_results.warnings = << >>

(***************************************************************************)
(* ADPDataCollector.update_historical_tracking (collect_adp_data.py).      *)
(* datetime.now() is the number of the run.                                *)
(***************************************************************************)
MaxHistoryRuns == 3

ConsolidatedPlayer(name, ppr_adp) ==
    [name |-> name, position |-> "QB", team |-> "BUF", ppr_adp |-> ppr_adp]

\* adp_consolidated_2025.json: absent, not JSON, or a players dict
ConsolidatedFiles ==
    {[kind |-> "missing"], [kind |-> "malformed"]}
        \cup {[kind |-> "ok", players |-> players] :
                players \in
                    {EmptyIndex,
                     [id \in {"a1"} |-> ConsolidatedPlayer("Josh Allen", 10)],
                     [id \in {"a1"} |-> ConsolidatedPlayer("Josh Allen", 20)],
                     [id \in {"a2"} |-> ConsolidatedPlayer("Kyle Pitts", 30)],
                     [id \in {"a1", "a2"} |->
                         IF id = "a1" THEN ConsolidatedPlayer("Josh Allen", 10)
                         ELSE ConsolidatedPlayer("Kyle Pitts", 30)],
                     [id \in {"a1", "a2"} |->
                         IF id = "a1" THEN ConsolidatedPlayer("Joshua Allen", 20)
                         ELSE ConsolidatedPlayer("Kyle Pitts", 30)]}}

NewHistoricalData == [snapshots |-> << >>, players |-> EmptyIndex]

Snapshot(date, current_data) ==
    [date |-> date, total_players |-> Cardinality(DOMAIN current_data.players)]

AdpHistoryEntry(date, player_data) ==
    [date |-> date, ppr_adp |-> player_data.ppr_adp]

\* a mutant of AppendAdpEntry: the history is started over
RestartAdpHistory(adp_history, adp_entry) == <<adp_entry>>

\* historical_data['players'][player_id]['adp_history'].append(adp_entry)
AppendAdpEntry(adp_history, adp_entry) == Append(adp_history, adp_entry)

TrackedPlayer(player_data) ==
    [name |-> player_data.name, position |-> player_data.position,
     team |-> player_data.team, adp_history |-> << >>]

\* the loop "Update player tracking"
UpdatePlayerTracking(players, current_players, date) ==
    [id \in DOMAIN players \cup DOMAIN current_players |->
        IF id \notin DOMAIN current_players
        THEN players[id]
        ELSE LET tracked == IF id \in DOMAIN players THEN players[id]
                            ELSE TrackedPlayer(current_players[id])
             IN [tracked EXCEPT !.adp_history =
                    AppendAdpEntry(@, AdpHistoryEntry(date, current_players[id]))]]

\* a run that does not get as far as the write: the file stays as it is
HistoryRunFails(current) ==
    adpHistory' = [adpHistory EXCEPT !.runs = @ + 1,
                                     !.last = [returned |-> FALSE,
                                               current |-> current]]

UpdateHistoricalTracking(current, writeDone) ==
    /\ adpHistory.runs < MaxHistoryRuns
    /\ IF current.kind # "ok" \/ adpHistory.file.kind = "torn"
       THEN \* no consolidated file, or json.load raises
            HistoryRunFails(current)
       ELSE LET date == adpHistory.runs + 1
                historical_data ==
                    IF adpHistory.file.kind = "ok"
                    THEN adpHistory.file.data ELSE NewHistoricalData
                updated ==
                    [snapshots |-> Append(historical_data.snapshots,
                                          Snapshot(date, current)),
                     players |-> UpdatePlayerTracking(historical_data.players,
                                                      current.players, date)]
            IN adpHistory' = [file |-> WriteJson(updated, writeDone),
                              runs |-> adpHistory.runs + 1,
                              last |-> [returned |-> writeDone,
                                        current |-> current]]
    /\ UNCHANGED <<mergeVars, draftVars, matchVars, normCall>>
    /\ UNCHANGED <<rosterCall, adpLoad, insightRun, validator>>

HistoryNext ==
    \E current \in ConsolidatedFiles, writeDone \in BOOLEAN :
        UpdateHistoricalTracking(current, writeDone)

HistorySpec == Init /\ [][HistoryNext]_vars

\* what the tracking file holds
TrackedData(file) == IF file.kind = "ok" THEN file.data ELSE NewHistoricalData

IsPrefix(s, t) == Len(s) <= Len(t) /\ SubSeq(t, 1, Len(s)) = s

HistoryLen(data, id) ==
    IF id \in DOMAIN data.players THEN Len(data.players[id].adp_history) ELSE 0

\* C30: a run of update_historical_tracking that returns True has appended
\* exactly one snapshot and, for every player of the current consolidated
\* data, exactly one adp_history entry; every snapshot, player and history
\* entry recorded before the run is still there, unchanged and in place.
C30_HistoryAppendOnly ==
    [][(adpHistory'.runs = adpHistory.runs + 1 /\ adpHistory'.last.returned)
          => LET before == TrackedData(adpHistory.file)
                 after == TrackedData(adpHistory'.file)
                 current_players == adpHistory'.last.current.players
             IN /\ adpHistory'.file.kind = "ok"
                /\ Len(after.snapshots) = Len(before.snapshots) + 1
                /\ IsPrefix(before.snapshots, after.snapshots)
                /\ \A id \in DOMAIN before.players :
                      /\ id \in DOMAIN after.players
                      /\ after.players[id].name = before.players[id].name
                      /\ IsPrefix(before.players[id].adp_history,
                                  after.players[id].adp_history)
                /\ \A id \in DOMAIN after.players :
                      HistoryLen(after, id)
                          = HistoryLen(before, id)
                               + (IF id \in DOMAIN current_players THEN 1 ELSE 0)
                /\ DOMAIN current_players \subseteq DOMAIN after.players]_vars

\* a third successful run on a history in which a player already has two
\* entries and another player is absent from the current data
C30_Witness ==
    /\ adpHistory.last.returned
    /\ adpHistory.file.kind = "ok"
    /\ Len(adpHistory.file.data.snapshots) = 3
    /\ \E id \in DOMAIN adpHistory.file.data.players :
          Len(adpHistory.file.data.players[id].adp_history) = 3
    /\ \E id \in DOMAIN adpHistory.file.data.players :
          id \notin DOMAIN adpHistory.last.current.players

====
